---- MODULE Spec2Model ----
(***************************************************************************)
(* The C ABI layer of xmp-toolkit-rs (src/ffi.cpp): the run-once           *)
(* initialization gate, the malloc'd strings handed to the caller, the     *)
(* CXmpError records, the error callback of CXmpFile and the exported      *)
(* functions.  The XMP Toolkit itself is the environment: each call into   *)
(* it returns, returns false, raises XMP_Error(id, message) or raises some *)
(* other fault, and OpenFile may invoke the registered error callback.     *)
(***************************************************************************)
EXTENDS Integers, Sequences, FiniteSets, TLC

----------------------------------------------------------------------------
(* Bounds of the model *)

NumThreads == 2       \* threads calling into the layer
MaxInitRuns == 2      \* executions of init_xmp_fn that are followed
MaxAddr == 2          \* distinct malloc addresses
MaxCode == 1          \* XMP_Error ids 0..MaxCode
MaxFiles == 1         \* CXmpFile capsules
MaxMetas == 1         \* CXmpMeta capsules
MaxText == 1          \* lengths 1..MaxText of the text the engine produces
MaxClones == 1        \* CXmpMeta capsules made by CXmpMetaClone
MaxIters == 1         \* CXmpIterator capsules
MaxLen == 2           \* lengths 0..MaxLen of the byte strings copied and stored
MaxProps == 2         \* properties of a metadata document
MaxOptions == 1       \* values 0..MaxOptions of the uint32 at outOptions
MaxOutputs == 3       \* addresses malloc has for a call with several string outputs

(* Program constants *)

NULL == 0             \* the null pointer
NUL == 0              \* the string terminator
kXMPErr_Unknown == 0  \* XMP_Const.h: kXMPErr_Unknown = 0

Threads == 1..NumThreads
Addr == 1..MaxAddr
Codes == 0..MaxCode
FileIds == 1..MaxFiles
MetaIds == 1..MaxMetas
CloneIds == 1..MaxClones
IterIds == 1..MaxIters
PropNames == 1..MaxProps
OutAddr == 1..MaxOutputs
OutCells == {"outSchemaNS", "outPropPath", "outPropValue", "actualLang"}

(* Text the engine produces and the caller passes: "e", "ee", ... as bytes. *)
Texts == {[i \in 1..n |-> 101] : n \in 1..MaxText}

(* The literal "XMP Toolkit unavailable". *)
XmpUnavailable ==
    <<88, 77, 80, 32, 84, 111, 111, 108, 107, 105, 116, 32,
      117, 110, 97, 118, 97, 105, 108, 97, 98, 108, 101>>

VARIABLES
    once,                \* xmp_init_flag: "idle", "running" or "done"
    xmp_init_succeeded,  \* the cached outcome of the setup
    initLog,             \* how each execution of init_xmp_fn ended, in order
    gateSeen,            \* the values init_xmp() has returned to its callers
    pc,                  \* per thread: "idle", "init" (running the setup), "blocked" (in call_once)
    cur,                 \* per thread: the exported function it is inside
    heap,                \* malloc: address -> bytes of the live buffer, << >> when not allocated
    err,                 \* per thread: the caller's CXmpError
    file,                \* CXmpFile capsules: state, open sub-state, embedded CXmpError
    meta,                \* CXmpMeta capsules: state
    clone,               \* CXmpMeta capsules made by CXmpMetaClone: state
    iter,                \* CXmpIterator capsules: state
    doc,                 \* per CXmpMeta capsule: the properties of its metadata document
    options,             \* the uint32 the caller passes as outOptions
    outs,                \* the const char* cells the caller passes as outSchemaNS, outPropPath, outPropValue, actualLang
    held,                \* strings returned to the caller and not yet released
    last,                \* what the call that has just returned did; op "none" once the caller has read it
    engineUninit,        \* an engine routine other than the setup ran without a successful gate
    ub                   \* the undefined operations met ("double_free"); the model follows the program up to the first

vars == <<once, xmp_init_succeeded, initLog, gateSeen, pc, cur, heap, err, file, meta,
          clone, iter, doc, options, outs, held, last, engineUninit, ub>>

gateVars == <<once, xmp_init_succeeded, initLog>>

obsVars == <<gateSeen, engineUninit, ub, clone, iter, doc, options, outs>>

----------------------------------------------------------------------------
(* String Transfer Protocol *)

\* strlen-delimited reading of a buffer by the caller.
RECURSIVE CStr(_)
CStr(b) == IF b = << >> \/ Head(b) = NUL THEN << >> ELSE <<Head(b)>> \o CStr(Tail(b))

\* A copy that measures a std::string with strlen.
copyStringForResult_Strlen(result) == CStr(result) \o <<NUL>>

\* A copy of size bytes, without the terminator.
copyStringForResult_NoTerminator(result) == result

\* What memcpy(cstr, result, size + 1) leaves in the malloc(size + 1) buffer.
copyStringForResult(result) == result \o <<NUL>>

\* The overload for const char*: size is strlen of the bytes at result.
copyCStringForResult(result) == copyStringForResult(CStr(result))

\* The byte strings of up to MaxLen bytes, nul bytes among them.
Bytes == {NUL, 101, 102}

ByteStrings == UNION {[1..n -> Bytes] : n \in 0..MaxLen}

free(h, p) == IF p = NULL THEN h ELSE [h EXCEPT ![p] = << >>]

\* free of an address that holds no live allocation
BadFree(h, p) == p # NULL /\ h[p] = << >>

malloc(h, a, bytes) == [h EXCEPT ![a] = bytes]

IsFree(h, a) == h[a] = << >>

----------------------------------------------------------------------------
(* Error Record Channel.  Each writer yields the new heap, the new record  *)
(* and whether its free() was handed a dead address.                        *)

\* CXmpError::CXmpError()
CXmpError == [hadError |-> 0, id |-> 0, debugMessage |-> NULL]

\* A reset() that leaves id as it was.
reset_KeepsId(h, e) ==
    [h |-> free(h, e.debugMessage),
     e |-> [hadError |-> 0, id |-> e.id, debugMessage |-> NULL],
     bad |-> BadFree(h, e.debugMessage)]

\* CXmpError::reset()
reset(h, e) ==
    [h |-> free(h, e.debugMessage),
     e |-> [hadError |-> 0, id |-> 0, debugMessage |-> NULL],
     bad |-> BadFree(h, e.debugMessage)]

copyErrorForResult(h, e, c, s, a) ==
    [h |-> malloc(free(h, e.debugMessage), a, copyCStringForResult(s)),
     e |-> [hadError |-> 1, id |-> c, debugMessage |-> a],
     bad |-> BadFree(h, e.debugMessage)]

signalUnknownError(h, e) ==
    [h |-> free(h, e.debugMessage),
     e |-> [hadError |-> 1, id |-> kXMPErr_Unknown, debugMessage |-> NULL],
     bad |-> BadFree(h, e.debugMessage)]

\* signalXmpInitFailure without the strdup of the message.
signalXmpInitFailure_NoMessage(h, e, a) ==
    [h |-> free(h, e.debugMessage),
     e |-> [hadError |-> 1, id |-> kXMPErr_Unknown, debugMessage |-> NULL],
     bad |-> BadFree(h, e.debugMessage)]

signalXmpInitFailure(h, e, a) ==
    [h |-> malloc(free(h, e.debugMessage), a, copyCStringForResult(XmpUnavailable)),
     e |-> [hadError |-> 1, id |-> kXMPErr_Unknown, debugMessage |-> a],
     bad |-> BadFree(h, e.debugMessage)]

\* A callback that stores the new message without the free of the one the
\* record holds.
xmpFileErrorCallback_KeepsMessage(h, e, cause, message, a) ==
    [h |-> malloc(h, a, copyCStringForResult(message)),
     e |-> [hadError |-> 1, id |-> cause, debugMessage |-> a],
     bad |-> FALSE]

\* xmpFileErrorCallback with a non-null context; it returns false.
xmpFileErrorCallback(h, e, cause, message, a) ==
    [h |-> malloc(free(h, e.debugMessage), a, copyCStringForResult(message)),
     e |-> [hadError |-> 1, id |-> cause, debugMessage |-> a],
     bad |-> BadFree(h, e.debugMessage)]

----------------------------------------------------------------------------
(* The engine as the layer sees it: one call returns ("ok"), returns false *)
(* ("absent"), raises XMP_Error(code, text) ("xmp") or raises anything     *)
(* else ("other").  "nocall" stands for a path that makes no engine call.  *)

Outcome(k, c, s) == [kind |-> k, code |-> c, text |-> s]

NoCall == Outcome("nocall", 0, << >>)

Faults == {Outcome("xmp", c, s) : c \in Codes, s \in Texts} \cup {Outcome("other", 0, << >>)}

\* The outcomes of the engine call of an exported function of shape S.
EngineOutcomes(S) ==
    (IF S.ok = "str" THEN {Outcome("ok", 0, s) : s \in Texts} ELSE {Outcome("ok", 0, << >>)})
    \cup (IF S.absent THEN {Outcome("absent", 0, << >>)} ELSE {})
    \cup Faults

NoCb == Outcome("nocb", 0, << >>)

\* What a completed call did: the observation the caller and the claims read.
Obs(op, t, g, o, cb, R) ==
    [op |-> op, t |-> t, gate |-> g,
     kind |-> o.kind, code |-> o.code, text |-> o.text,
     cbk |-> cb.kind, ccode |-> cb.code, ctext |-> cb.text,
     eng |-> R.eng, ret |-> R.ret, val |-> R.val,
     escaped |-> R.esc, pops |-> R.pops]

\* The result of a handler body: new heap h, new caller record e, whether a
\* free() met a dead address, the return value, the number of engine calls,
\* whether a fault left the function, the number of populate steps, and
\* whether the address drawn for its malloc was available.
Res(h, e, bad, ret, val, eng, esc, pops, fits) ==
    [h |-> h, e |-> e, bad |-> bad, ret |-> ret, val |-> val, eng |-> eng,
     esc |-> esc, pops |-> pops, fits |-> fits]

\* A success path that clears hadError of outError before it returns.
Success_ClearsRecord(h, e, ret, val, eng, fits) ==
    Res(h, [e EXCEPT !.hadError = 0], FALSE, ret, val, eng, FALSE, 0, fits)

\* The return on a path where the engine call raised nothing: outError is
\* not written.
Success(h, e, ret, val, eng, fits) == Res(h, e, FALSE, ret, val, eng, FALSE, 0, fits)

\* A record writer's result W as the result of the handler that returns ret.
Populated(W, h0, a, ret, eng) ==
    Res(W.h, W.e, W.bad, ret, 0, eng, FALSE, 1,
        IF W.e.debugMessage = NULL THEN a = 1 ELSE IsFree(h0, a))

\* An engine call that returns false and is answered with signalUnknownError.
Absent_SignalsError(h, e, sentinel, a) ==
    Populated(signalUnknownError(h, e), h, a, sentinel, 1)

\* A false-return path that allocates a buffer and hands it to nobody.
Absent_LeavesBuffer(h, e, sentinel, a) ==
    Success(malloc(h, a, <<NUL>>), e, sentinel, 0, 1, IsFree(h, a))

\* The engine call returned false: the if body is skipped and the function
\* falls through to the return of its sentinel.
Absent(h, e, sentinel, a) == Success(h, e, sentinel, 0, 1, a = 1)

\* catch (XMP_Error& e) { copyErrorForResult(e, outError); }
\* catch (...) { signalUnknownError(outError); }        -- kind "both"
\* catch (...) { /* no-op */ }                          -- kind "all"
\* no try block                                         -- kind "none"
Catch(kind, h, e, o, a, sentinel, eng) ==
    CASE kind = "both" /\ o.kind = "xmp" ->
            Populated(copyErrorForResult(h, e, o.code, o.text, a),
                      free(h, e.debugMessage), a, sentinel, eng)
      [] kind = "both" /\ o.kind = "other" ->
            Populated(signalUnknownError(h, e), h, a, sentinel, eng)
      [] kind = "all" -> Res(h, e, FALSE, sentinel, 0, eng, FALSE, 0, a = 1)
      [] OTHER -> Res(h, e, FALSE, "none", 0, eng, TRUE, 0, a = 1)

\* if (!init_xmp()) { signalXmpInitFailure(outError); return <sentinel>; }
GateFailed(h, e, a, sentinel) ==
    Populated(signalXmpInitFailure(h, e, a), free(h, e.debugMessage), a, sentinel, 0)

\* The body shared by the exported functions that wrap one engine call:
\* gate check (g), null check of the pointer argument (n), the engine call
\* with outcome o, the conversion of its result, and the catch clauses.
SimpleResult(S, g, n, o, a, h, e) ==
    CASE g = "failed" /\ S.rec -> GateFailed(h, e, a, S.sentinel)
      [] g = "failed" /\ ~S.rec -> Res(h, e, FALSE, S.sentinel, 0, 0, FALSE, 0, a = 1)
      [] g # "failed" /\ n -> Success(h, e, S.sentinel, 0, 0, a = 1)
      [] g # "failed" /\ ~n /\ o.kind = "ok" /\ S.ok = "str" ->
            Success(malloc(h, a, copyStringForResult(o.text)), e, "str", a, 1, IsFree(h, a))
      [] g # "failed" /\ ~n /\ o.kind = "ok" /\ S.ok # "str" ->
            Success(h, e, S.ok, 0, 1, a = 1)
      [] g # "failed" /\ ~n /\ o.kind = "absent" -> Absent(h, e, S.sentinel, a)
      [] OTHER -> Catch(S.catch, h, e, o, a, S.sentinel, 1)

----------------------------------------------------------------------------
(* The exported functions that wrap one engine call in the common way.     *)
(* gated: calls init_xmp() first; rec: takes CXmpError* outError; needs:   *)
(* the handles it dereferences; guard: the engine call is under a null     *)
(* check of a pointer argument; absent: the engine's false return leads to *)
(* the sentinel; ok: the return value on success; sentinel: the return     *)
(* value otherwise; catch: the catch clauses around the engine call.       *)

\* lines 256-270
CXmpFilePutXmp ==
    [name |-> "CXmpFilePutXmp", gated |-> FALSE, rec |-> TRUE, needs |-> "filemeta",
     guard |-> FALSE, absent |-> FALSE, ok |-> "void", sentinel |-> "void", catch |-> "both"]

\* lines 272-284
CXmpFileCanPutXmp ==
    [name |-> "CXmpFileCanPutXmp", gated |-> FALSE, rec |-> FALSE, needs |-> "filemeta",
     guard |-> FALSE, absent |-> TRUE, ok |-> "1", sentinel |-> "0", catch |-> "all"]

\* lines 361-388
CXmpMetaSerializeToBuffer ==
    [name |-> "CXmpMetaSerializeToBuffer", gated |-> TRUE, rec |-> TRUE, needs |-> "meta",
     guard |-> FALSE, absent |-> FALSE, ok |-> "str", sentinel |-> "null", catch |-> "both"]

\* lines 390-414
CXmpMetaRegisterNamespace ==
    [name |-> "CXmpMetaRegisterNamespace", gated |-> TRUE, rec |-> TRUE, needs |-> "none",
     guard |-> FALSE, absent |-> FALSE, ok |-> "str", sentinel |-> "null", catch |-> "both"]

\* lines 416-439
CXmpMetaGetNamespacePrefix ==
    [name |-> "CXmpMetaGetNamespacePrefix", gated |-> TRUE, rec |-> TRUE, needs |-> "none",
     guard |-> FALSE, absent |-> TRUE, ok |-> "str", sentinel |-> "null", catch |-> "both"]

\* lines 441-464
CXmpMetaGetNamespaceURI ==
    [name |-> "CXmpMetaGetNamespaceURI", gated |-> TRUE, rec |-> TRUE, needs |-> "none",
     guard |-> FALSE, absent |-> TRUE, ok |-> "str", sentinel |-> "null", catch |-> "both"]

\* lines 466-477
CXmpDumpNamespaces ==
    [name |-> "CXmpDumpNamespaces", gated |-> TRUE, rec |-> FALSE, needs |-> "none",
     guard |-> FALSE, absent |-> FALSE, ok |-> "void", sentinel |-> "void", catch |-> "all"]

\* lines 479-502
CXmpMetaGetProperty ==
    [name |-> "CXmpMetaGetProperty", gated |-> FALSE, rec |-> TRUE, needs |-> "meta",
     guard |-> FALSE, absent |-> TRUE, ok |-> "str", sentinel |-> "null", catch |-> "both"]

\* lines 504-527
CXmpMetaGetProperty_Bool ==
    [name |-> "CXmpMetaGetProperty_Bool", gated |-> FALSE, rec |-> TRUE, needs |-> "meta",
     guard |-> FALSE, absent |-> TRUE, ok |-> "true", sentinel |-> "false", catch |-> "both"]

\* lines 529-553
CXmpMetaGetProperty_Int ==
    [name |-> "CXmpMetaGetProperty_Int", gated |-> FALSE, rec |-> TRUE, needs |-> "meta",
     guard |-> FALSE, absent |-> TRUE, ok |-> "true", sentinel |-> "false", catch |-> "both"]

\* lines 555-579
CXmpMetaGetProperty_Int64 ==
    [name |-> "CXmpMetaGetProperty_Int64", gated |-> FALSE, rec |-> TRUE, needs |-> "meta",
     guard |-> FALSE, absent |-> TRUE, ok |-> "true", sentinel |-> "false", catch |-> "both"]

\* lines 581-605
CXmpMetaGetProperty_Float ==
    [name |-> "CXmpMetaGetProperty_Float", gated |-> FALSE, rec |-> TRUE, needs |-> "meta",
     guard |-> FALSE, absent |-> TRUE, ok |-> "true", sentinel |-> "false", catch |-> "both"]

\* lines 607-631
CXmpMetaGetProperty_Date ==
    [name |-> "CXmpMetaGetProperty_Date", gated |-> FALSE, rec |-> TRUE, needs |-> "meta",
     guard |-> FALSE, absent |-> TRUE, ok |-> "true", sentinel |-> "false", catch |-> "both"]

\* lines 633-650
CXmpMetaSetProperty ==
    [name |-> "CXmpMetaSetProperty", gated |-> FALSE, rec |-> TRUE, needs |-> "meta",
     guard |-> FALSE, absent |-> FALSE, ok |-> "void", sentinel |-> "void", catch |-> "both"]

\* lines 652-669
CXmpMetaSetProperty_Bool ==
    [name |-> "CXmpMetaSetProperty_Bool", gated |-> FALSE, rec |-> TRUE, needs |-> "meta",
     guard |-> FALSE, absent |-> FALSE, ok |-> "void", sentinel |-> "void", catch |-> "both"]

\* lines 671-688
CXmpMetaSetProperty_Int ==
    [name |-> "CXmpMetaSetProperty_Int", gated |-> FALSE, rec |-> TRUE, needs |-> "meta",
     guard |-> FALSE, absent |-> FALSE, ok |-> "void", sentinel |-> "void", catch |-> "both"]

\* lines 690-707
CXmpMetaSetProperty_Int64 ==
    [name |-> "CXmpMetaSetProperty_Int64", gated |-> FALSE, rec |-> TRUE, needs |-> "meta",
     guard |-> FALSE, absent |-> FALSE, ok |-> "void", sentinel |-> "void", catch |-> "both"]

\* lines 709-726
CXmpMetaSetProperty_Float ==
    [name |-> "CXmpMetaSetProperty_Float", gated |-> FALSE, rec |-> TRUE, needs |-> "meta",
     guard |-> FALSE, absent |-> FALSE, ok |-> "void", sentinel |-> "void", catch |-> "both"]

\* lines 728-745
CXmpMetaSetProperty_Date ==
    [name |-> "CXmpMetaSetProperty_Date", gated |-> FALSE, rec |-> TRUE, needs |-> "meta",
     guard |-> FALSE, absent |-> FALSE, ok |-> "void", sentinel |-> "void", catch |-> "both"]

\* lines 747-762
CXmpMetaDeleteProperty ==
    [name |-> "CXmpMetaDeleteProperty", gated |-> FALSE, rec |-> TRUE, needs |-> "meta",
     guard |-> FALSE, absent |-> FALSE, ok |-> "void", sentinel |-> "void", catch |-> "both"]

\* lines 764-782
CXmpMetaSetArrayItem ==
    [name |-> "CXmpMetaSetArrayItem", gated |-> FALSE, rec |-> TRUE, needs |-> "meta",
     guard |-> FALSE, absent |-> FALSE, ok |-> "void", sentinel |-> "void", catch |-> "both"]

\* lines 784-802
CXmpMetaAppendArrayItem ==
    [name |-> "CXmpMetaAppendArrayItem", gated |-> FALSE, rec |-> TRUE, needs |-> "meta",
     guard |-> FALSE, absent |-> FALSE, ok |-> "void", sentinel |-> "void", catch |-> "both"]

\* lines 804-820
CXmpMetaDeleteArrayItem ==
    [name |-> "CXmpMetaDeleteArrayItem", gated |-> FALSE, rec |-> TRUE, needs |-> "meta",
     guard |-> FALSE, absent |-> FALSE, ok |-> "void", sentinel |-> "void", catch |-> "both"]

\* lines 822-843
CXmpMetaCountArrayItems ==
    [name |-> "CXmpMetaCountArrayItems", gated |-> FALSE, rec |-> TRUE, needs |-> "meta",
     guard |-> FALSE, absent |-> FALSE, ok |-> "true", sentinel |-> "false", catch |-> "both"]

\* lines 845-871
CXmpMetaGetStructField ==
    [name |-> "CXmpMetaGetStructField", gated |-> FALSE, rec |-> TRUE, needs |-> "meta",
     guard |-> FALSE, absent |-> TRUE, ok |-> "str", sentinel |-> "null", catch |-> "both"]

\* lines 873-893
CXmpMetaSetStructField ==
    [name |-> "CXmpMetaSetStructField", gated |-> FALSE, rec |-> TRUE, needs |-> "meta",
     guard |-> FALSE, absent |-> FALSE, ok |-> "void", sentinel |-> "void", catch |-> "both"]

\* lines 895-912
CXmpMetaDeleteStructField ==
    [name |-> "CXmpMetaDeleteStructField", gated |-> FALSE, rec |-> TRUE, needs |-> "meta",
     guard |-> FALSE, absent |-> FALSE, ok |-> "void", sentinel |-> "void", catch |-> "both"]

\* lines 914-940
CXmpMetaGetQualifier ==
    [name |-> "CXmpMetaGetQualifier", gated |-> FALSE, rec |-> TRUE, needs |-> "meta",
     guard |-> FALSE, absent |-> TRUE, ok |-> "str", sentinel |-> "null", catch |-> "both"]

\* lines 942-962
CXmpMetaSetQualifier ==
    [name |-> "CXmpMetaSetQualifier", gated |-> FALSE, rec |-> TRUE, needs |-> "meta",
     guard |-> FALSE, absent |-> FALSE, ok |-> "void", sentinel |-> "void", catch |-> "both"]

\* lines 964-981
CXmpMetaDeleteQualifier ==
    [name |-> "CXmpMetaDeleteQualifier", gated |-> FALSE, rec |-> TRUE, needs |-> "meta",
     guard |-> FALSE, absent |-> FALSE, ok |-> "void", sentinel |-> "void", catch |-> "both"]

\* lines 983-996
CXmpMetaDoesPropertyExist ==
    [name |-> "CXmpMetaDoesPropertyExist", gated |-> FALSE, rec |-> FALSE, needs |-> "meta",
     guard |-> FALSE, absent |-> TRUE, ok |-> "1", sentinel |-> "0", catch |-> "all"]

\* lines 998-1013
CXmpMetaDoesStructFieldExist ==
    [name |-> "CXmpMetaDoesStructFieldExist", gated |-> FALSE, rec |-> FALSE, needs |-> "meta",
     guard |-> FALSE, absent |-> TRUE, ok |-> "1", sentinel |-> "0", catch |-> "all"]

\* lines 1015-1030
CXmpMetaDoesQualifierExist ==
    [name |-> "CXmpMetaDoesQualifierExist", gated |-> FALSE, rec |-> FALSE, needs |-> "meta",
     guard |-> FALSE, absent |-> TRUE, ok |-> "1", sentinel |-> "0", catch |-> "all"]

\* lines 1032-1061
CXmpMetaGetArrayItem ==
    [name |-> "CXmpMetaGetArrayItem", gated |-> FALSE, rec |-> TRUE, needs |-> "meta",
     guard |-> FALSE, absent |-> TRUE, ok |-> "str", sentinel |-> "null", catch |-> "both"]

\* lines 1099-1123
CXmpMetaSetLocalizedText ==
    [name |-> "CXmpMetaSetLocalizedText", gated |-> FALSE, rec |-> TRUE, needs |-> "meta",
     guard |-> FALSE, absent |-> FALSE, ok |-> "void", sentinel |-> "void", catch |-> "both"]

\* lines 1125-1137
CXmpMetaSort ==
    [name |-> "CXmpMetaSort", gated |-> FALSE, rec |-> TRUE, needs |-> "meta",
     guard |-> FALSE, absent |-> FALSE, ok |-> "void", sentinel |-> "void", catch |-> "both"]

\* lines 1139-1155
CXmpMetaGetObjectName ==
    [name |-> "CXmpMetaGetObjectName", gated |-> FALSE, rec |-> TRUE, needs |-> "meta",
     guard |-> FALSE, absent |-> FALSE, ok |-> "str", sentinel |-> "null", catch |-> "both"]

\* lines 1157-1171
CXmpMetaSetObjectName ==
    [name |-> "CXmpMetaSetObjectName", gated |-> FALSE, rec |-> TRUE, needs |-> "meta",
     guard |-> FALSE, absent |-> FALSE, ok |-> "void", sentinel |-> "void", catch |-> "both"]

\* lines 1173-1201
CXmpMetaComposeArrayItemPath ==
    [name |-> "CXmpMetaComposeArrayItemPath", gated |-> TRUE, rec |-> TRUE, needs |-> "none",
     guard |-> FALSE, absent |-> FALSE, ok |-> "str", sentinel |-> "null", catch |-> "both"]

\* lines 1203-1231
CXmpMetaComposeLangSelector ==
    [name |-> "CXmpMetaComposeLangSelector", gated |-> TRUE, rec |-> TRUE, needs |-> "none",
     guard |-> FALSE, absent |-> FALSE, ok |-> "str", sentinel |-> "null", catch |-> "both"]

\* lines 1233-1265
CXmpMetaComposeFieldSelector ==
    [name |-> "CXmpMetaComposeFieldSelector", gated |-> TRUE, rec |-> TRUE, needs |-> "none",
     guard |-> FALSE, absent |-> FALSE, ok |-> "str", sentinel |-> "null", catch |-> "both"]

\* lines 1267-1297
CXmpMetaComposeQualifierPath ==
    [name |-> "CXmpMetaComposeQualifierPath", gated |-> TRUE, rec |-> TRUE, needs |-> "none",
     guard |-> FALSE, absent |-> FALSE, ok |-> "str", sentinel |-> "null", catch |-> "both"]

\* lines 1299-1329
CXmpMetaComposeStructFieldPath ==
    [name |-> "CXmpMetaComposeStructFieldPath", gated |-> TRUE, rec |-> TRUE, needs |-> "none",
     guard |-> FALSE, absent |-> FALSE, ok |-> "str", sentinel |-> "null", catch |-> "both"]

\* lines 1331-1342
CXmpMetaDumpObj ==
    [name |-> "CXmpMetaDumpObj", gated |-> FALSE, rec |-> FALSE, needs |-> "meta",
     guard |-> FALSE, absent |-> FALSE, ok |-> "void", sentinel |-> "void", catch |-> "all"]

\* lines 1425-1439
CXmpDateTimeCurrent ==
    [name |-> "CXmpDateTimeCurrent", gated |-> FALSE, rec |-> TRUE, needs |-> "none",
     guard |-> TRUE, absent |-> FALSE, ok |-> "void", sentinel |-> "void", catch |-> "both"]

\* lines 1441-1460
CXmpDateTimeSetTimeZone ==
    [name |-> "CXmpDateTimeSetTimeZone", gated |-> TRUE, rec |-> TRUE, needs |-> "none",
     guard |-> TRUE, absent |-> FALSE, ok |-> "void", sentinel |-> "void", catch |-> "both"]

\* lines 1462-1481
CXmpDateTimeConvertToLocalTime ==
    [name |-> "CXmpDateTimeConvertToLocalTime", gated |-> TRUE, rec |-> TRUE, needs |-> "none",
     guard |-> TRUE, absent |-> FALSE, ok |-> "void", sentinel |-> "void", catch |-> "both"]

\* lines 1483-1502
CXmpDateTimeConvertToUTCTime ==
    [name |-> "CXmpDateTimeConvertToUTCTime", gated |-> TRUE, rec |-> TRUE, needs |-> "none",
     guard |-> TRUE, absent |-> FALSE, ok |-> "void", sentinel |-> "void", catch |-> "both"]

\* lines 1504-1527
CXmpDateTimeToString ==
    [name |-> "CXmpDateTimeToString", gated |-> TRUE, rec |-> TRUE, needs |-> "none",
     guard |-> TRUE, absent |-> FALSE, ok |-> "str", sentinel |-> "null", catch |-> "both"]

SimpleOps ==
    {CXmpFilePutXmp, CXmpFileCanPutXmp, CXmpMetaSerializeToBuffer,
     CXmpMetaRegisterNamespace, CXmpMetaGetNamespacePrefix, CXmpMetaGetNamespaceURI,
     CXmpDumpNamespaces, CXmpMetaGetProperty, CXmpMetaGetProperty_Bool,
     CXmpMetaGetProperty_Int, CXmpMetaGetProperty_Int64, CXmpMetaGetProperty_Float,
     CXmpMetaGetProperty_Date, CXmpMetaSetProperty, CXmpMetaSetProperty_Bool,
     CXmpMetaSetProperty_Int, CXmpMetaSetProperty_Int64, CXmpMetaSetProperty_Float,
     CXmpMetaSetProperty_Date, CXmpMetaDeleteProperty, CXmpMetaSetArrayItem,
     CXmpMetaAppendArrayItem, CXmpMetaDeleteArrayItem, CXmpMetaCountArrayItems,
     CXmpMetaGetStructField, CXmpMetaSetStructField, CXmpMetaDeleteStructField,
     CXmpMetaGetQualifier, CXmpMetaSetQualifier, CXmpMetaDeleteQualifier,
     CXmpMetaDoesPropertyExist, CXmpMetaDoesStructFieldExist, CXmpMetaDoesQualifierExist,
     CXmpMetaGetArrayItem, CXmpMetaSetLocalizedText, CXmpMetaSort,
     CXmpMetaGetObjectName, CXmpMetaSetObjectName, CXmpMetaComposeArrayItemPath,
     CXmpMetaComposeLangSelector, CXmpMetaComposeFieldSelector, CXmpMetaComposeQualifierPath,
     CXmpMetaComposeStructFieldPath, CXmpMetaDumpObj, CXmpDateTimeCurrent,
     CXmpDateTimeSetTimeZone, CXmpDateTimeConvertToLocalTime, CXmpDateTimeConvertToUTCTime,
     CXmpDateTimeToString}

Shape(op) == CHOOSE S \in SimpleOps : S.name = op

\* Two functions of SimpleOps differ in nothing but the engine routine they
\* forward to.
SameShape(S, X) == [S EXCEPT !.name = X.name] = X

\* The function that stands for S in the calls of the model: functions of
\* one shape are one action.
Rep(S) == CHOOSE X \in SimpleOps : SameShape(S, X)

Exercised == {Rep(S) : S \in SimpleOps}

\* The names of the functions of SimpleOps.
SimpleNames == {S.name : S \in SimpleOps}

\* The typed reads among SimpleOps; CXmpMetaGetLocalizedText is the tenth.
TypedReads ==
    {CXmpMetaGetProperty, CXmpMetaGetProperty_Bool, CXmpMetaGetProperty_Int,
     CXmpMetaGetProperty_Int64, CXmpMetaGetProperty_Float, CXmpMetaGetProperty_Date,
     CXmpMetaGetStructField, CXmpMetaGetQualifier, CXmpMetaGetArrayItem}

----------------------------------------------------------------------------
(* Initial state: nothing allocated, the gate untouched, every caller      *)
(* record as its constructor leaves it.                                    *)

\* A property the document does not have.
NoProp == [has |-> FALSE, value |-> << >>, given |-> << >>]

NoFile == [st |-> "absent", open |-> FALSE, err |-> CXmpError]

NoRes == Res(<< >>, CXmpError, FALSE, "none", 0, 0, FALSE, 0, TRUE)

Init ==
    /\ once = "idle"
    /\ xmp_init_succeeded = FALSE
    /\ initLog = << >>
    /\ gateSeen = {}
    /\ pc = [t \in Threads |-> "idle"]
    /\ cur = [t \in Threads |-> "none"]
    /\ heap = [a \in Addr \cup OutAddr |-> << >>]
    /\ err = [t \in Threads |-> CXmpError]
    /\ file = [f \in FileIds |-> NoFile]
    /\ meta = [m \in MetaIds |-> "absent"]
    /\ clone = [k \in CloneIds |-> "absent"]
    /\ iter = [i \in IterIds |-> "absent"]
    /\ doc = [m \in MetaIds |-> [p \in PropNames |-> NoProp]]
    /\ options = 0
    /\ outs = [c \in OutCells |-> NULL]
    /\ held = {}
    /\ last = Obs("none", 0, "none", NoCall, NoCb, NoRes)
    /\ engineUninit = FALSE
    /\ ub = {}

----------------------------------------------------------------------------
(* Completion of a call *)

\* The gate is known to have succeeded when the engine call is made.
Initialised(g) == g = "ok" \/ (g = "none" /\ once = "done" /\ xmp_init_succeeded)

\* free() of a dead address is undefined.
Undefined(bad) == IF bad THEN ub \cup {"double_free"} ELSE ub

\* The call of thread t returns (or lets a fault out) with result R.
Complete(t, op, g, o, cb, R, hl) ==
    /\ R.fits
    /\ heap' = R.h
    /\ err' = [err EXCEPT ![t] = R.e]
    /\ held' = hl
    /\ last' = Obs(op, t, g, o, cb, R)
    /\ gateSeen' = (IF g \in {"ok", "failed"} THEN gateSeen \cup {g} ELSE gateSeen)
    /\ engineUninit' = (engineUninit \/ (R.eng > 0 /\ ~Initialised(g)))
    /\ ub' = Undefined(R.bad)

\* The same for a call that neither makes nor deletes a clone or an iterator
\* and writes no property.
Commit(t, op, g, o, cb, R, hl) ==
    /\ Complete(t, op, g, o, cb, R, hl)
    /\ UNCHANGED <<clone, iter, doc, options, outs>>

Holding(R) == IF R.ret = "str" THEN held \cup {R.val} ELSE held

LiveFile == \E f \in FileIds : file[f].st = "live"
LiveMeta == \E m \in MetaIds : meta[m] = "live"

\* The handles the function dereferences are live.
HasHandles(needs) ==
    CASE needs = "file" -> LiveFile
      [] needs = "meta" -> LiveMeta
      [] needs = "filemeta" -> LiveFile /\ LiveMeta
      [] OTHER -> TRUE

SimpleFinish(t, S, g) ==
    /\ g # "failed" => HasHandles(S.needs)
    /\ \E n \in (IF S.guard THEN BOOLEAN ELSE {FALSE}) :
       \E o \in (IF g = "failed" \/ n THEN {NoCall} ELSE EngineOutcomes(S)) :
       \E a \in Addr :
          LET R == SimpleResult(S, g, n, o, a, heap, err[t])
          IN  Commit(t, S.name, g, o, NoCb, R, Holding(R))
    /\ UNCHANGED <<file, meta>>

----------------------------------------------------------------------------
(* Handle-creating functions behind the gate *)

\* CXmpFileNew after init_xmp(): new CXmpFile inside the try block.  The
\* constructor builds the SXMPFiles and the embedded CXmpError and binds
\* xmpFileErrorCallback to &err.
FileNewBody(t, g) ==
    \E o \in (IF g = "failed" THEN {NoCall} ELSE {Outcome("ok", 0, << >>)} \cup Faults) :
    \E a \in Addr :
       IF o.kind = "ok"
       THEN \E f \in FileIds :
               /\ file[f].st = "absent"
               /\ a = 1
               /\ file' = [file EXCEPT ![f] = [st |-> "live", open |-> FALSE, err |-> CXmpError]]
               /\ Commit(t, "CXmpFileNew", g, o, NoCb,
                         Success(heap, err[t], "handle", f, 1, TRUE), held)
               /\ UNCHANGED meta
       ELSE /\ Commit(t, "CXmpFileNew", g, o, NoCb,
                      IF g = "failed" THEN GateFailed(heap, err[t], a, "null")
                      ELSE Catch("both", heap, err[t], o, a, "null", 1), held)
            /\ UNCHANGED <<file, meta>>

\* CXmpMetaNew after init_xmp(): new CXmpMeta inside the try block.
MetaNewBody(t, g) ==
    \E o \in (IF g = "failed" THEN {NoCall} ELSE {Outcome("ok", 0, << >>)} \cup Faults) :
    \E a \in Addr :
       IF o.kind = "ok"
       THEN \E m \in MetaIds :
               /\ meta[m] = "absent"
               /\ a = 1
               /\ meta' = [meta EXCEPT ![m] = "live"]
               /\ Commit(t, "CXmpMetaNew", g, o, NoCb,
                         Success(heap, err[t], "handle", m, 1, TRUE), held)
               /\ UNCHANGED file
       ELSE /\ Commit(t, "CXmpMetaNew", g, o, NoCb,
                      IF g = "failed" THEN GateFailed(heap, err[t], a, "null")
                      ELSE Catch("both", heap, err[t], o, a, "null", 1), held)
            /\ UNCHANGED <<file, meta>>

\* CXmpMetaParseFromBuffer after init_xmp(): new CXmpMeta before the try
\* block (outcome c), then ParseFromBuffer inside it (outcome o); a parse
\* fault deletes the capsule.
ParseFromBufferBody(t, g) ==
    \E c \in (IF g = "failed" THEN {NoCall} ELSE {Outcome("ok", 0, << >>)} \cup Faults) :
    \E o \in (IF c.kind = "ok" THEN {Outcome("ok", 0, << >>)} \cup Faults ELSE {c}) :
    \E a \in Addr :
       IF o.kind = "ok"
       THEN \E m \in MetaIds :
               /\ meta[m] = "absent"
               /\ a = 1
               /\ meta' = [meta EXCEPT ![m] = "live"]
               /\ Commit(t, "CXmpMetaParseFromBuffer", g, o, NoCb,
                         Success(heap, err[t], "handle", m, 2, TRUE), held)
               /\ UNCHANGED file
       ELSE /\ Commit(t, "CXmpMetaParseFromBuffer", g, o, NoCb,
                      CASE g = "failed" -> GateFailed(heap, err[t], a, "null")
                        [] g # "failed" /\ c.kind # "ok" ->
                              Catch("none", heap, err[t], c, a, "null", 1)
                        [] OTHER -> Catch("both", heap, err[t], o, a, "null", 2), held)
            /\ UNCHANGED <<file, meta>>

\* What a function does once init_xmp() has returned g (or "none" when the
\* function does not call it).
Finish(t, op, g) ==
    CASE op = "CXmpFileNew" -> FileNewBody(t, g)
      [] op = "CXmpMetaNew" -> MetaNewBody(t, g)
      [] op = "CXmpMetaParseFromBuffer" -> ParseFromBufferBody(t, g)
      [] OTHER -> SimpleFinish(t, Shape(op), g)

----------------------------------------------------------------------------
(* Process Initialization Gate: std::call_once(xmp_init_flag, init_xmp_fn) *)

\* A call can start: no undefined operation has happened and the caller has
\* read the result of the call before.
Running == ub = {} /\ last.op = "none"

StepOutcomes == {"ok", "xmp", "other"}

\* init_xmp_fn with SXMPMeta::Initialize ending mi and SXMPFiles::Initialize
\* ending fi: "succeeded" sets xmp_init_succeeded, "failed" is the caught
\* XMP_Error, "fault" is a fault the function does not catch.
init_xmp_fn(mi, fi) ==
    CASE mi = "ok" /\ fi = "ok" -> "succeeded"
      [] mi = "xmp" \/ (mi = "ok" /\ fi = "xmp") -> "failed"
      [] OTHER -> "fault"

\* init_xmp() as the first statement of a gated function: call_once
\* returns at once when the flag is set, makes the caller the executing
\* thread when it is free, and blocks the caller while another thread
\* executes.
init_xmp(t, op) ==
    CASE once = "done" ->
            /\ Finish(t, op, IF xmp_init_succeeded THEN "ok" ELSE "failed")
            /\ UNCHANGED <<gateVars, pc, cur>>
      [] once = "idle" ->
            /\ once' = "running"
            /\ pc' = [pc EXCEPT ![t] = "init"]
            /\ cur' = [cur EXCEPT ![t] = op]
            /\ UNCHANGED <<xmp_init_succeeded, initLog, heap, err, file, meta, held,
                           last, obsVars>>
      [] OTHER ->
            /\ pc' = [pc EXCEPT ![t] = "blocked"]
            /\ cur' = [cur EXCEPT ![t] = op]
            /\ UNCHANGED <<gateVars, heap, err, file, meta, held, last, obsVars>>

\* The executing thread runs init_xmp_fn.  A normal return sets the flag
\* and the gated function goes on; a fault leaves call_once with the flag
\* unset and leaves the exported function.
call_once_execute(t) ==
    /\ Running
    /\ pc[t] = "init"
    /\ \E mi \in StepOutcomes :
       \E fi \in (IF mi = "ok" THEN StepOutcomes ELSE {"ok"}) :
          LET r == init_xmp_fn(mi, fi) IN
          /\ r = "fault" => Len(initLog) + 1 < MaxInitRuns
          /\ initLog' = Append(initLog, r)
          /\ pc' = [pc EXCEPT ![t] = "idle"]
          /\ cur' = [cur EXCEPT ![t] = "none"]
          /\ IF r = "fault"
             THEN /\ once' = "idle"
                  /\ UNCHANGED <<xmp_init_succeeded, heap, err, file, meta, held, obsVars>>
                  /\ last' = Obs(cur[t], t, "fault", Outcome("other", 0, << >>), NoCb,
                                 Res(heap, err[t], FALSE, "none", 0, 0, TRUE, 0, TRUE))
             ELSE /\ once' = "done"
                  /\ xmp_init_succeeded' = (IF r = "succeeded" THEN TRUE ELSE xmp_init_succeeded)
                  /\ Finish(t, cur[t], IF r = "succeeded" THEN "ok" ELSE "failed")

\* A thread blocked in call_once goes on when no thread executes: with the
\* flag set it returns, with the flag unset it becomes the executing thread.
call_once_wake(t) ==
    /\ Running
    /\ pc[t] = "blocked"
    /\ once # "running"
    /\ IF once = "done"
       THEN /\ pc' = [pc EXCEPT ![t] = "idle"]
            /\ cur' = [cur EXCEPT ![t] = "none"]
            /\ Finish(t, cur[t], IF xmp_init_succeeded THEN "ok" ELSE "failed")
            /\ UNCHANGED gateVars
       ELSE /\ once' = "running"
            /\ pc' = [pc EXCEPT ![t] = "init"]
            /\ UNCHANGED <<xmp_init_succeeded, initLog, cur, heap, err, file, meta, held,
                           last, obsVars>>

----------------------------------------------------------------------------
(* The calls *)

\* A call of one of the functions of SimpleOps.
Surface(t) ==
    /\ Running
    /\ pc[t] = "idle"
    /\ \E S \in Exercised :
          IF S.gated
          THEN /\ S.needs # "none" => once = "done"
               /\ init_xmp(t, S.name)
          ELSE /\ Finish(t, S.name, "none")
               /\ UNCHANGED <<gateVars, pc, cur>>

CXmpFileNew(t) == Running /\ pc[t] = "idle" /\ init_xmp(t, "CXmpFileNew")

CXmpMetaNew(t) == Running /\ pc[t] = "idle" /\ init_xmp(t, "CXmpMetaNew")

CXmpMetaParseFromBuffer(t) ==
    Running /\ pc[t] = "idle" /\ init_xmp(t, "CXmpMetaParseFromBuffer")

\* CXmpFileGetXmp(f): new CXmpMeta (outcome c) inside the outer try, then
\* GetXMP (outcome o) inside the inner try.  The capsule is returned on
\* true, deleted on a fault of GetXMP, and neither returned nor deleted on
\* false.
CXmpFileGetXmp(t) ==
    /\ Running
    /\ pc[t] = "idle"
    /\ LiveFile
    /\ \E c \in {Outcome("ok", 0, << >>)} \cup Faults :
       \E o \in (IF c.kind = "ok"
                 THEN {Outcome("ok", 0, << >>), Outcome("absent", 0, << >>)} \cup Faults
                 ELSE {c}) :
          CASE o.kind = "ok" ->
                  \E m \in MetaIds :
                     /\ meta[m] = "absent"
                     /\ meta' = [meta EXCEPT ![m] = "live"]
                     /\ Commit(t, "CXmpFileGetXmp", "none", o, NoCb,
                               Success(heap, err[t], "handle", m, 2, TRUE), held)
            [] o.kind = "absent" ->
                  \E m \in MetaIds :
                     /\ meta[m] = "absent"
                     /\ meta' = [meta EXCEPT ![m] = "leaked"]
                     /\ Commit(t, "CXmpFileGetXmp", "none", o, NoCb,
                               [Absent(heap, err[t], "null", 1) EXCEPT !.eng = 2], held)
            [] OTHER ->
                  /\ Commit(t, "CXmpFileGetXmp", "none", o, NoCb,
                            Catch("all", heap, err[t], o, 1, "null",
                                  IF c.kind = "ok" THEN 2 ELSE 1), held)
                  /\ UNCHANGED meta
    /\ UNCHANGED <<gateVars, pc, cur, file>>

\* CXmpMetaGetLocalizedText(m, outError, ...): on the engine's true return
\* *actualLang and the return value are two copies (at a1 and a2).
CXmpMetaGetLocalizedText(t) ==
    /\ Running
    /\ pc[t] = "idle"
    /\ LiveMeta
    /\ \E o \in {Outcome("ok", 0, s) : s \in Texts} \cup {Outcome("absent", 0, << >>)} \cup Faults :
       \E a1 \in Addr : \E a2 \in Addr :
          LET R == CASE o.kind = "ok" ->
                          Success(malloc(malloc(heap, a1, copyStringForResult(o.text)),
                                         a2, copyStringForResult(o.text)),
                                  err[t], "str", a2, 1,
                                  IsFree(heap, a1) /\ IsFree(heap, a2) /\ a1 # a2)
                     [] o.kind = "absent" ->
                          [Absent(heap, err[t], "null", a1) EXCEPT !.fits = @ /\ a2 = 1]
                     [] OTHER ->
                          [Catch("both", heap, err[t], o, a1, "null", 1)
                              EXCEPT !.fits = @ /\ a2 = 1]
          IN  Commit(t, "CXmpMetaGetLocalizedText", "none", o, NoCb, R,
                     IF o.kind = "ok" THEN held \cup {a1, a2} ELSE held)
    /\ UNCHANGED <<gateVars, pc, cur, file, meta>>

\* CXmpStringCopy(str): a copy of the caller's string.
CXmpStringCopy(t) ==
    /\ Running
    /\ pc[t] = "idle"
    /\ \E str \in Texts : \E a \in Addr :
          LET R == Res(malloc(heap, a, copyCStringForResult(str)), err[t], FALSE, "str", a,
                       0, FALSE, 0, IsFree(heap, a))
          IN  Commit(t, "CXmpStringCopy", "none", Outcome("nocall", 0, str), NoCb, R, Holding(R))
    /\ UNCHANGED <<gateVars, pc, cur, file, meta>>

\* CXmpStringDrop(str) on a string the caller was handed.
CXmpStringDrop(t) ==
    /\ Running
    /\ pc[t] = "idle"
    /\ \E str \in held :
          Commit(t, "CXmpStringDrop", "none", NoCall, NoCb,
                 Res(free(heap, str), err[t], BadFree(heap, str), "void", str, 0, FALSE, 0, TRUE),
                 held \ {str})
    /\ UNCHANGED <<gateVars, pc, cur, file, meta>>

\* The caller is done with its record: it releases the message through
\* CXmpStringDrop and uses a newly constructed CXmpError from then on.
ReleaseError(t) ==
    /\ Running
    /\ pc[t] = "idle"
    /\ err[t] # CXmpError
    /\ Commit(t, "ReleaseError", "none", NoCall, NoCb,
              Res(free(heap, err[t].debugMessage), CXmpError,
                  BadFree(heap, err[t].debugMessage), "void", err[t].debugMessage,
                  0, FALSE, 0, TRUE), held)
    /\ UNCHANGED <<gateVars, pc, cur, file, meta>>

\* CXmpFileDrop(f): delete f.  CXmpFile and CXmpError declare no destructor,
\* so the message of the embedded record is not freed.
CXmpFileDrop(t) ==
    /\ Running
    /\ pc[t] = "idle"
    /\ \E f \in FileIds :
          /\ file[f].st = "live"
          /\ file' = [file EXCEPT ![f] = [st |-> "dropped", open |-> FALSE, err |-> CXmpError]]
          /\ Commit(t, "CXmpFileDrop", "none", NoCall, NoCb,
                    Res(heap, err[t], FALSE, "void", f, 0, FALSE, 0, TRUE), held)
    /\ UNCHANGED <<gateVars, pc, cur, meta>>

\* CXmpMetaDrop(m): delete m.
CXmpMetaDrop(t) ==
    /\ Running
    /\ pc[t] = "idle"
    /\ \E m \in MetaIds :
          /\ meta[m] = "live"
          /\ meta' = [meta EXCEPT ![m] = "dropped"]
          /\ Commit(t, "CXmpMetaDrop", "none", NoCall, NoCb,
                    Res(heap, err[t], FALSE, "void", m, 0, FALSE, 0, TRUE), held)
    /\ UNCHANGED <<gateVars, pc, cur, file>>

\* CXmpMetaDrop(m) on a handle CXmpMetaClone returned.
CXmpMetaDrop_Clone(t) ==
    /\ Running
    /\ pc[t] = "idle"
    /\ \E k \in CloneIds :
          /\ clone[k] = "live"
          /\ clone' = [clone EXCEPT ![k] = "dropped"]
          /\ Complete(t, "CXmpMetaDrop", "none", NoCall, NoCb,
                      Res(heap, err[t], FALSE, "void", k, 0, FALSE, 0, TRUE), held)
    /\ UNCHANGED <<gateVars, pc, cur, file, meta, iter, doc, options, outs>>

\* CXmpMetaClone(m, outError): inside one try block, new CXmpMeta (outcome
\* c) and then result->m = m->m.Clone() (outcome o).  No catch clause
\* deletes the capsule.
CXmpMetaClone(t) ==
    /\ Running
    /\ pc[t] = "idle"
    /\ LiveMeta
    /\ \E c \in {Outcome("ok", 0, << >>)} \cup Faults :
       \E o \in (IF c.kind = "ok" THEN {Outcome("ok", 0, << >>)} \cup Faults ELSE {c}) :
       \E a \in Addr :
          CASE o.kind = "ok" ->
                  \E k \in CloneIds :
                     /\ clone[k] = "absent"
                     /\ a = 1
                     /\ clone' = [clone EXCEPT ![k] = "live"]
                     /\ Complete(t, "CXmpMetaClone", "none", o, NoCb,
                                 Success(heap, err[t], "handle", k, 2, TRUE), held)
            [] o.kind # "ok" /\ c.kind = "ok" ->
                  \E k \in CloneIds :
                     /\ clone[k] = "absent"
                     /\ clone' = [clone EXCEPT ![k] = "leaked"]
                     /\ Complete(t, "CXmpMetaClone", "none", o, NoCb,
                                 Catch("both", heap, err[t], o, a, "null", 2), held)
            [] OTHER ->
                  /\ Complete(t, "CXmpMetaClone", "none", o, NoCb,
                              Catch("both", heap, err[t], o, a, "null", 1), held)
                  /\ UNCHANGED clone
    /\ UNCHANGED <<gateVars, pc, cur, file, meta, iter, doc, options, outs>>

\* CXmpIteratorNew(m, outError, ...): with m null (n) nothing is done; else
\* new CXmpIterator(SXMPIterator(...)) inside the try block.
CXmpIteratorNew(t) ==
    /\ Running
    /\ pc[t] = "idle"
    /\ \E n \in BOOLEAN :
       \E o \in (IF n THEN {NoCall} ELSE {Outcome("ok", 0, << >>)} \cup Faults) :
       \E a \in Addr :
          /\ ~n => LiveMeta
          /\ CASE n ->
                     /\ Complete(t, "CXmpIteratorNew", "none", o, NoCb,
                                 Success(heap, err[t], "null", 0, 0, a = 1), held)
                     /\ UNCHANGED iter
               [] ~n /\ o.kind = "ok" ->
                     \E i \in IterIds :
                        /\ iter[i] = "absent"
                        /\ a = 1
                        /\ iter' = [iter EXCEPT ![i] = "live"]
                        /\ Complete(t, "CXmpIteratorNew", "none", o, NoCb,
                                    Success(heap, err[t], "handle", i, 1, TRUE), held)
               [] OTHER ->
                     /\ Complete(t, "CXmpIteratorNew", "none", o, NoCb,
                                 Catch("both", heap, err[t], o, a, "null", 1), held)
                     /\ UNCHANGED iter
    /\ UNCHANGED <<gateVars, pc, cur, file, meta, clone, doc, options, outs>>

\* CXmpIteratorDrop(i): delete i.
CXmpIteratorDrop(t) ==
    /\ Running
    /\ pc[t] = "idle"
    /\ \E i \in IterIds :
          /\ iter[i] = "live"
          /\ iter' = [iter EXCEPT ![i] = "dropped"]
          /\ Complete(t, "CXmpIteratorDrop", "none", NoCall, NoCb,
                      Res(heap, err[t], FALSE, "void", i, 0, FALSE, 0, TRUE), held)
    /\ UNCHANGED <<gateVars, pc, cur, file, meta, clone, doc, options, outs>>

\* A CXmpFileClose that remembers that the file is closed and forwards
\* CloseFile for an open file only.
CXmpFileClose_TracksClosed(t) ==
    /\ Running
    /\ pc[t] = "idle"
    /\ \E f \in FileIds : \E o \in {Outcome("ok", 0, << >>)} \cup Faults :
          /\ file[f].st = "live"
          /\ file' = [file EXCEPT ![f].open = IF o.kind = "ok" THEN FALSE ELSE @]
          /\ Commit(t, "CXmpFileClose", "none", o, NoCb,
                    IF o.kind = "ok" \/ ~file[f].open
                    THEN Res(heap, err[t], FALSE, "void", f, IF file[f].open THEN 1 ELSE 0,
                             FALSE, 0, TRUE)
                    ELSE Catch("none", heap, err[t], o, 1, "void", 1), held)
    /\ UNCHANGED <<gateVars, pc, cur, meta>>

\* CXmpFileClose(f): f->f.CloseFile() with no try block around it.
CXmpFileClose(t) ==
    /\ Running
    /\ pc[t] = "idle"
    /\ \E f \in FileIds : \E o \in {Outcome("ok", 0, << >>)} \cup Faults :
          /\ file[f].st = "live"
          /\ file' = [file EXCEPT ![f].open = IF o.kind = "ok" THEN FALSE ELSE @]
          /\ Commit(t, "CXmpFileClose", "none", o, NoCb,
                    IF o.kind = "ok"
                    THEN Res(heap, err[t], FALSE, "void", f, 1, FALSE, 0, TRUE)
                    ELSE Catch("none", heap, err[t], o, 1, "void", 1), held)
    /\ UNCHANGED <<gateVars, pc, cur, meta>>

\* The body of CXmpFileOpen on the capsule F with the caller's record e:
\*   f->err.reset();
\*   OpenFile, during which the engine may invoke xmpFileErrorCallback on
\*   &f->err (cb), and which returns true, returns false or raises (o);
\*   on false: *outError = f->err; f->err.reset();
\*   on a fault: the catch clauses.
\* Yields the handler result and the new embedded record.
FileOpenResult(h, F, e, cb, o, a1, a2) ==
    LET W0 == reset(h, F.err)
        W1 == IF cb.kind = "cb"
              THEN xmpFileErrorCallback(W0.h, W0.e, cb.code, cb.text, a1)
              ELSE W0
        fit1 == IF cb.kind = "cb" THEN IsFree(W0.h, a1) ELSE a1 = 1
        W2 == reset(W1.h, W1.e)
        C == Catch("both", W1.h, e, o, a2, "void", 1)
    IN  CASE o.kind = "ok" ->
                [R |-> [Success(W1.h, e, "void", 0, 1, fit1 /\ a2 = 1) EXCEPT !.bad = W0.bad],
                 emb |-> W1.e, open |-> TRUE]
          [] o.kind = "absent" ->
                [R |-> Res(W2.h, W1.e, W0.bad \/ W2.bad, "void", 0, 1, FALSE, 1, fit1 /\ a2 = 1),
                 emb |-> W2.e, open |-> F.open]
          [] OTHER ->
                [R |-> Res(C.h, C.e, W0.bad \/ C.bad, "void", 0, 1, FALSE, C.pops, fit1 /\ C.fits),
                 emb |-> W1.e, open |-> F.open]

CXmpFileOpen(t) ==
    /\ Running
    /\ pc[t] = "idle"
    /\ \E f \in FileIds :
       \E cb \in {NoCb} \cup {Outcome("cb", c, s) : c \in Codes, s \in Texts} :
       \E o \in {Outcome("ok", 0, << >>), Outcome("absent", 0, << >>)} \cup Faults :
       \E a1 \in Addr : \E a2 \in Addr :
          LET X == FileOpenResult(heap, file[f], err[t], cb, o, a1, a2) IN
          /\ file[f].st = "live"
          /\ file' = [file EXCEPT ![f].err = X.emb, ![f].open = X.open]
          /\ Commit(t, "CXmpFileOpen", "none", o, cb, [X.R EXCEPT !.val = f], held)
    /\ UNCHANGED <<gateVars, pc, cur, meta>>

\* The caller has read the result of its call.
Return ==
    /\ last.op # "none"
    /\ last' = Obs("none", 0, "none", NoCall, NoCb, NoRes)
    /\ UNCHANGED <<gateVars, pc, cur, heap, err, file, meta, held, obsVars>>

----------------------------------------------------------------------------
\* One thread drives the whole surface.
Caller == {t \in Threads : \A u \in Threads : t <= u}

\* The calls of one thread, and the caller's reading of a result.
Next ==
    \/ \E t \in Caller :
          \/ Surface(t)
          \/ CXmpFileNew(t)
          \/ CXmpMetaNew(t)
          \/ CXmpMetaParseFromBuffer(t)
          \/ call_once_execute(t)
          \/ CXmpFileGetXmp(t)
          \/ CXmpMetaGetLocalizedText(t)
          \/ CXmpStringCopy(t)
          \/ CXmpStringDrop(t)
          \/ ReleaseError(t)
          \/ CXmpFileDrop(t)
          \/ CXmpMetaDrop(t)
          \/ CXmpFileClose(t)
          \/ CXmpFileOpen(t)
    \/ Return

Spec == Init /\ [][Next]_vars

\* Every thread makes its first boundary calls through the gate.
NextGate ==
    \/ \E t \in Threads :
          \/ CXmpFileNew(t)
          \/ CXmpMetaNew(t)
          \/ CXmpMetaParseFromBuffer(t)
          \/ call_once_execute(t)
          \/ call_once_wake(t)
          \/ ReleaseError(t)
    \/ Return

SpecGate == Init /\ [][NextGate]_vars

\* The success path of a function that returns the engine's std::string
\* (as CXmpMetaGetProperty does with propValue), for every byte string.
ReturnText(t) ==
    /\ Running
    /\ pc[t] = "idle"
    /\ \E propValue \in ByteStrings : \E a \in Addr :
          LET R == Success(malloc(heap, a, copyStringForResult(propValue)), err[t], "str", a,
                           1, IsFree(heap, a))
          IN  Commit(t, "CXmpMetaGetProperty", "none", Outcome("ok", 0, propValue), NoCb, R,
                     Holding(R))
    /\ UNCHANGED <<gateVars, pc, cur, file, meta>>

\* CXmpStringCopy(str) for every content of the memory at str; the string
\* it is given is what lies before the first nul byte.
CXmpStringCopy_Bytes(t) ==
    /\ Running
    /\ pc[t] = "idle"
    /\ \E str \in ByteStrings : \E a \in Addr :
          LET R == Res(malloc(heap, a, copyCStringForResult(str \o <<NUL>>)), err[t], FALSE,
                       "str", a, 0, FALSE, 0, IsFree(heap, a))
          IN  Commit(t, "CXmpStringCopy", "none", Outcome("nocall", 0, CStr(str)), NoCb, R,
                     Holding(R))
    /\ UNCHANGED <<gateVars, pc, cur, file, meta>>

NextStrings ==
    \/ \E t \in Caller :
          \/ ReturnText(t)
          \/ CXmpStringCopy_Bytes(t)
          \/ CXmpStringDrop(t)
    \/ Return

SpecStrings == Init /\ [][NextStrings]_vars

\* One thread makes, uses and drops handles of every kind.
NextHandles ==
    \/ \E t \in Caller :
          \/ CXmpFileNew(t)
          \/ CXmpMetaNew(t)
          \/ CXmpMetaParseFromBuffer(t)
          \/ call_once_execute(t)
          \/ CXmpFileGetXmp(t)
          \/ CXmpMetaClone(t)
          \/ CXmpIteratorNew(t)
          \/ CXmpFileOpen(t)
          \/ CXmpFileClose(t)
          \/ CXmpFileDrop(t)
          \/ CXmpMetaDrop(t)
          \/ CXmpMetaDrop_Clone(t)
          \/ CXmpIteratorDrop(t)
          \/ ReleaseError(t)
    \/ Return

SpecHandles == Init /\ [][NextHandles]_vars

----------------------------------------------------------------------------
(* Property round trip.  The metadata document is the engine's; the layer  *)
(* hands it the pointer propValue and copies the std::string it returns.   *)

\* The byte contents a caller has at propValue, nul bytes among them.
PropValues == UNION {[1..n -> {NUL, 101}] : n \in 0..MaxLen}

\* SXMPMeta::SetProperty(schemaNS, propName, propValue, options) on the
\* properties d of a document: the property holds the C string at propValue.
\* given is the caller's byte content at propValue.
SXMPMeta_SetProperty(d, p, given) ==
    [d EXCEPT ![p] = [has |-> TRUE, value |-> CStr(given \o <<NUL>>), given |-> given]]

\* The outcomes of SXMPMeta::GetProperty(schemaNS, propName, &propValue,
\* outOptions): true with the value of a property the document has, false
\* or a fault for one it has not.
SXMPMeta_GetProperty(d, p) ==
    IF d[p].has THEN {Outcome("ok", 0, d[p].value)}
    ELSE {Outcome("absent", 0, << >>)} \cup Faults

\* CXmpMetaSetProperty(m, outError, schemaNS, propName, propValue, options)
\* for property p of the document of capsule m.
CXmpMetaSetProperty_Doc(t, m, p) ==
    /\ Running
    /\ pc[t] = "idle"
    /\ meta[m] = "live"
    /\ \E given \in PropValues : \E o \in {Outcome("ok", 0, << >>)} \cup Faults :
       \E a \in Addr :
          /\ doc' = (IF o.kind = "ok"
                     THEN [doc EXCEPT ![m] = SXMPMeta_SetProperty(doc[m], p, given)]
                     ELSE doc)
          /\ Complete(t, "CXmpMetaSetProperty", "none", o, NoCb,
                      SimpleResult(CXmpMetaSetProperty, "none", FALSE, o, a, heap, err[t]),
                      held)
    /\ UNCHANGED <<gateVars, pc, cur, file, meta, clone, iter, options, outs>>

\* CXmpMetaGetProperty(m, outError, schemaNS, propName, outOptions) for
\* property p of the document of capsule m.
CXmpMetaGetProperty_Doc(t, m, p) ==
    /\ Running
    /\ pc[t] = "idle"
    /\ meta[m] = "live"
    /\ \E o \in SXMPMeta_GetProperty(doc[m], p) : \E a \in Addr :
          LET R == SimpleResult(CXmpMetaGetProperty, "none", FALSE, o, a, heap, err[t])
          IN  Commit(t, "CXmpMetaGetProperty", "none", o, NoCb, R, Holding(R))
    /\ UNCHANGED <<gateVars, pc, cur, file, meta>>

\* One thread makes a document, writes and reads its properties.
NextRoundTrip ==
    \/ \E t \in Caller :
          \/ CXmpMetaNew(t)
          \/ call_once_execute(t)
          \/ \E m \in MetaIds : \E p \in PropNames : CXmpMetaSetProperty_Doc(t, m, p)
          \/ \E m \in MetaIds : \E p \in PropNames : CXmpMetaGetProperty_Doc(t, m, p)
          \/ CXmpStringDrop(t)
    \/ Return

SpecRoundTrip == Init /\ [][NextRoundTrip]_vars

----------------------------------------------------------------------------
(* The inert build: the translation unit compiled with NOOP_FFI defined.   *)
(* What is left of each exported function is what stands outside its       *)
(* #ifndef NOOP_FFI block.                                                 *)

\* The exported functions outside SimpleOps, CXmpStringCopy and
\* CXmpStringDrop aside.
OtherNames ==
    {"CXmpFileNew", "CXmpFileDrop", "CXmpFileOpen", "CXmpFileClose", "CXmpFileGetXmp",
     "CXmpMetaNew", "CXmpMetaDrop", "CXmpMetaClone", "CXmpMetaParseFromBuffer",
     "CXmpMetaGetLocalizedText", "CXmpIteratorNew", "CXmpIteratorDrop",
     "CXmpIteratorNext", "CXmpIteratorSkip"}

\* The functions with a parameter AdobeXMPCommon::uint32* outOptions.
HasOutOptions ==
    {"CXmpMetaGetProperty", "CXmpMetaGetProperty_Bool", "CXmpMetaGetProperty_Int",
     "CXmpMetaGetProperty_Int64", "CXmpMetaGetProperty_Float", "CXmpMetaGetProperty_Date",
     "CXmpMetaGetStructField", "CXmpMetaGetQualifier", "CXmpMetaGetArrayItem",
     "CXmpMetaGetLocalizedText", "CXmpIteratorNext"}

\* The functions that hold the statement *outOptions = 0 outside
\* #ifndef NOOP_FFI.
ZeroesOutOptions == HasOutOptions \ {"CXmpIteratorNext"}

\* The return statement after #endif.
InertReturn(op) ==
    CASE op \in SimpleNames -> Shape(op).sentinel
      [] op \in {"CXmpFileDrop", "CXmpFileOpen", "CXmpFileClose", "CXmpMetaDrop",
                 "CXmpIteratorDrop", "CXmpIteratorSkip"} -> "void"
      [] op = "CXmpIteratorNext" -> "false"
      [] OTHER -> "null"

\* A call of an exported function of the inert build: the statements outside
\* the #ifndef NOOP_FFI block, with no call of init_xmp or of the engine
\* among them.
InertCall(t) ==
    /\ Running
    /\ pc[t] = "idle"
    /\ \E op \in SimpleNames \cup OtherNames :
          /\ options' = (IF op \in ZeroesOutOptions THEN 0 ELSE options)
          /\ last' = Obs(op, t, "none", NoCall, NoCb,
                         Res(heap, err[t], FALSE, InertReturn(op), 0, 0, FALSE, 0, TRUE))
    /\ UNCHANGED <<gateVars, pc, cur, heap, err, file, meta, held, gateSeen, engineUninit,
                   ub, clone, iter, doc, outs>>

\* The caller fills the fields of its record, taking as message a string it
\* holds.
CallerWritesRecord(t) ==
    /\ Running
    /\ pc[t] = "idle"
    /\ \E h \in 0..1 : \E c \in Codes : \E msg \in {NULL} \cup held :
          /\ err[t].debugMessage = NULL
          /\ err' = [err EXCEPT ![t] = [hadError |-> h, id |-> c, debugMessage |-> msg]]
          /\ err'[t] # err[t]
          /\ held' = held \ {msg}
    /\ UNCHANGED <<gateVars, pc, cur, heap, file, meta, last, obsVars>>

\* The caller stores a value in the uint32 it passes as outOptions.
CallerWritesOptions(t) ==
    /\ Running
    /\ pc[t] = "idle"
    /\ \E v \in 0..MaxOptions :
          /\ v # options
          /\ options' = v
    /\ UNCHANGED <<gateVars, pc, cur, heap, err, file, meta, held, last, gateSeen,
                   engineUninit, ub, clone, iter, doc, outs>>

NextInert ==
    \/ \E t \in Caller :
          \/ InertCall(t)
          \/ CallerWritesRecord(t)
          \/ CallerWritesOptions(t)
          \/ CXmpStringCopy(t)
          \/ CXmpStringDrop(t)
          \/ ReleaseError(t)
    \/ Return

SpecInert == Init /\ [][NextInert]_vars

----------------------------------------------------------------------------
(* The error interception callback as the engine invokes it *)

\* The engine, inside a call of thread t on file f, invokes
\* xmpFileErrorCallback(context, filePath, severity, cause, message):
\* context is NULL or 1, which stands for &f->err, the pointer the CXmpFile
\* constructor registers; message is the byte content at the pointer.  The
\* observation keeps the message the record held before in val.
xmpFileErrorCallback_Invoke(t, f, context, cause, message) ==
    /\ Running
    /\ pc[t] = "idle"
    /\ file[f].st = "live"
    /\ \E a \in Addr :
          LET e == file[f].err
              W == xmpFileErrorCallback(heap, e, cause, message \o <<NUL>>, a)
          IN  IF context = NULL
              THEN /\ a = 1
                   /\ Commit(t, "xmpFileErrorCallback", "none", NoCall,
                             Outcome("cb", cause, message),
                             Res(heap, err[t], FALSE, "false", NULL, 0, FALSE, 0, TRUE), held)
                   /\ UNCHANGED file
              ELSE /\ file' = [file EXCEPT ![f].err = W.e]
                   /\ Commit(t, "xmpFileErrorCallback", "none", NoCall,
                             Outcome("cb", cause, message),
                             Res(W.h, err[t], W.bad, "false", e.debugMessage, 0, FALSE, 1,
                                 IsFree(free(heap, e.debugMessage), a)), held)
    /\ UNCHANGED <<gateVars, pc, cur, meta>>

\* The engine invokes the callback on the files the layer has made.
NextCallback ==
    \/ \E t \in Caller : CXmpFileNew(t) \/ call_once_execute(t)
    \/ \E t \in Caller : \E f \in FileIds : \E context \in {NULL, 1} :
       \E cause \in Codes : \E message \in PropValues :
          xmpFileErrorCallback_Invoke(t, f, context, cause, message)
    \/ Return

SpecCallback == Init /\ [][NextCallback]_vars

----------------------------------------------------------------------------
(* Reads with out-parameters: *outOptions and the const char* cells *)

\* The uint32 at outOptions when the read op returns: opts is what the
\* caller passed, o the outcome of the engine call, wrote whether the engine
\* stored v there before it returned or raised.  CXmpMetaGetArrayItem
\* stores 0 after the engine's false return and nowhere else; the other
\* readers store 0 before the engine call; CXmpIteratorNext stores nothing.
OutOptionsAfter(op, o, wrote, v, opts) ==
    CASE op = "CXmpMetaGetArrayItem" /\ o.kind = "absent" -> 0
      [] wrote -> v
      [] op \in ZeroesOutOptions \ {"CXmpMetaGetArrayItem"} -> 0
      [] OTHER -> opts

\* What the engine stores at outOptions: a value when it returns true, a
\* value or nothing otherwise.
EngineOptions(o, wrote) ==
    IF wrote THEN 0..MaxOptions ELSE {v \in {0} : o.kind # "ok"}

\* A typed read of SimpleOps on a live document, with its outOptions.
ReadWithOutOptions(t, wrote) ==
    /\ Running
    /\ pc[t] = "idle"
    /\ LiveMeta
    /\ \E S \in TypedReads : \E o \in EngineOutcomes(S) : \E v \in EngineOptions(o, wrote) :
       \E a \in Addr :
          LET R == SimpleResult(S, "none", FALSE, o, a, heap, err[t]) IN
          /\ options' = OutOptionsAfter(S.name, o, wrote, v, options)
          /\ Complete(t, S.name, "none", o, NoCb, R, Holding(R))
    /\ UNCHANGED <<gateVars, pc, cur, file, meta, clone, iter, doc, outs>>

\* CXmpMetaGetLocalizedText with its outOptions and *actualLang: on the
\* engine's true return *actualLang (a1) and the return value (a2) are two
\* copies, of outActualLang and of propValue.
CXmpMetaGetLocalizedText_Out(t, wrote) ==
    /\ Running
    /\ pc[t] = "idle"
    /\ LiveMeta
    /\ \E o \in {Outcome("ok", 0, s) : s \in Texts} \cup {Outcome("absent", 0, << >>)} \cup Faults :
       \E outActualLang \in Texts : \E v \in EngineOptions(o, wrote) :
       \E a1 \in Addr : \E a2 \in Addr :
          LET R == CASE o.kind = "ok" ->
                          Success(malloc(malloc(heap, a1, copyStringForResult(outActualLang)),
                                         a2, copyStringForResult(o.text)),
                                  err[t], "str", a2, 1,
                                  IsFree(heap, a1) /\ IsFree(heap, a2) /\ a1 # a2)
                     [] o.kind = "absent" ->
                          [Absent(heap, err[t], "null", a1) EXCEPT !.fits = @ /\ a2 = 1]
                     [] OTHER ->
                          [Catch("both", heap, err[t], o, a1, "null", 1)
                              EXCEPT !.fits = @ /\ a2 = 1]
          IN  /\ options' = OutOptionsAfter("CXmpMetaGetLocalizedText", o, wrote, v, options)
              /\ outs' = (IF o.kind = "ok" THEN [outs EXCEPT !["actualLang"] = a1] ELSE outs)
              /\ Complete(t, "CXmpMetaGetLocalizedText", "none", o, NoCb, R,
                          IF o.kind = "ok" THEN held \cup {a1, a2} ELSE held)
    /\ UNCHANGED <<gateVars, pc, cur, file, meta, clone, iter, doc>>

\* CXmpIteratorNext(i, outError, outSchemaNS, outPropPath, outPropValue,
\* outOptions): with i null (n) nothing is done; on the engine's true
\* return the three cells get copies of schemaNS, propPath and propValue and
\* the function returns true; otherwise it returns false.
CXmpIteratorNext(t, wrote) ==
    /\ Running
    /\ pc[t] = "idle"
    /\ \E n \in BOOLEAN :
       \E o \in (IF n THEN {NoCall}
                 ELSE {Outcome("ok", 0, s) : s \in Texts} \cup {Outcome("absent", 0, << >>)}
                          \cup Faults) :
       \E schemaNS \in Texts : \E propPath \in Texts : \E v \in EngineOptions(o, wrote /\ ~n) :
       \E a1 \in OutAddr : \E a2 \in OutAddr : \E a3 \in OutAddr :
          LET h3 == malloc(malloc(malloc(heap, a1, copyStringForResult(schemaNS)),
                                  a2, copyStringForResult(propPath)),
                           a3, copyStringForResult(o.text))
              R == CASE n -> Success(heap, err[t], "false", 0, 0, a1 = 1 /\ a2 = 1 /\ a3 = 1)
                     [] o.kind = "ok" ->
                          Success(h3, err[t], "true", a3, 1,
                                  /\ IsFree(heap, a1) /\ IsFree(heap, a2) /\ IsFree(heap, a3)
                                  /\ a1 # a2 /\ a1 # a3 /\ a2 # a3)
                     [] o.kind = "absent" ->
                          [Absent(heap, err[t], "false", a1) EXCEPT !.fits = @ /\ a2 = 1 /\ a3 = 1]
                     [] OTHER ->
                          [Catch("both", heap, err[t], o, a1, "false", 1)
                              EXCEPT !.fits = @ /\ a1 \in Addr /\ a2 = 1 /\ a3 = 1]
          IN  /\ ~n => \E i \in IterIds : iter[i] = "live"
              /\ options' = OutOptionsAfter("CXmpIteratorNext", o, wrote /\ ~n, v, options)
              /\ outs' = (IF o.kind = "ok"
                          THEN [outs EXCEPT !["outSchemaNS"] = a1, !["outPropPath"] = a2,
                                            !["outPropValue"] = a3]
                          ELSE outs)
              /\ Complete(t, "CXmpIteratorNext", "none", o, NoCb, R,
                          IF o.kind = "ok" THEN held \cup {a1, a2, a3} ELSE held)
    /\ UNCHANGED <<gateVars, pc, cur, file, meta, clone, iter, doc>>

\* One thread makes a document and an iterator and reads through them.
NextOut ==
    \/ \E t \in Caller :
          \/ CXmpMetaNew(t)
          \/ call_once_execute(t)
          \/ CXmpIteratorNew(t)
          \/ CallerWritesOptions(t)
          \/ \E wrote \in BOOLEAN : ReadWithOutOptions(t, wrote)
          \/ \E wrote \in BOOLEAN : CXmpMetaGetLocalizedText_Out(t, wrote)
          \/ \E wrote \in BOOLEAN : CXmpIteratorNext(t, wrote)
          \/ CXmpStringDrop(t)
    \/ Return

SpecOut == Init /\ [][NextOut]_vars

----------------------------------------------------------------------------
(* Calls with outError = NULL *)

\* A call of one of the functions of SimpleOps that take a record, made with
\* outError = NULL once the gate is settled: the if (outError) of
\* copyErrorForResult, signalUnknownError and signalXmpInitFailure skips the
\* writer's body, so a path that ends in a writer (W.pops > 0) ends with the
\* same return value and nothing written or released.
Surface_NullRecord(t) ==
    /\ Running
    /\ pc[t] = "idle"
    /\ \E S \in {X \in Exercised : X.rec} :
          LET g == CASE ~S.gated -> "none"
                     [] S.gated /\ xmp_init_succeeded -> "ok"
                     [] OTHER -> "failed"
          IN  /\ S.gated => once = "done"
              /\ g # "failed" => HasHandles(S.needs)
              /\ \E n \in (IF S.guard THEN BOOLEAN ELSE {FALSE}) :
                 \E o \in (IF g = "failed" \/ n THEN {NoCall} ELSE EngineOutcomes(S)) :
                 \E a \in Addr :
                    LET W == SimpleResult(S, g, n, o, a, heap, err[t])
                        R == IF W.pops > 0
                             THEN Res(heap, err[t], FALSE, W.ret, W.val, W.eng, W.esc, 0, a = 1)
                             ELSE W
                    IN  Commit(t, S.name, g, o, NoCb, R, Holding(R))
    /\ UNCHANGED <<gateVars, pc, cur, file, meta>>

\* CXmpFileOpen(f, NULL, filePath, openFlags):
\*   f->err.reset(); OpenFile with the callback cb on &f->err and the
\*   outcome o;
\*   on true and on a fault nothing more is written (the catch clauses call
\*   the writers, which skip their body);
\*   on false: *outError = f->err stores through the null pointer, which is
\*   undefined; the model records it in ub and stops there.
CXmpFileOpen_NullRecord(t) ==
    /\ Running
    /\ pc[t] = "idle"
    /\ \E f \in FileIds :
       \E cb \in {NoCb} \cup {Outcome("cb", c, s) : c \in Codes, s \in Texts} :
       \E o \in {Outcome("ok", 0, << >>), Outcome("absent", 0, << >>)} \cup Faults :
       \E a1 \in Addr :
          LET W0 == reset(heap, file[f].err)
              W1 == IF cb.kind = "cb"
                    THEN xmpFileErrorCallback(W0.h, W0.e, cb.code, cb.text, a1)
                    ELSE W0
              fit1 == IF cb.kind = "cb" THEN IsFree(W0.h, a1) ELSE a1 = 1
              R == Res(W1.h, err[t], W0.bad, IF o.kind = "absent" THEN "none" ELSE "void",
                       f, 1, FALSE, 0, fit1)
          IN  /\ file[f].st = "live"
              /\ file' = [file EXCEPT ![f].err = W1.e, ![f].open = (o.kind = "ok" \/ @)]
              /\ IF o.kind = "absent"
                 THEN /\ R.fits
                      /\ heap' = R.h
                      /\ ub' = Undefined(R.bad) \cup {"null_deref"}
                      /\ last' = Obs("CXmpFileOpen", t, "none", o, cb, R)
                      /\ engineUninit' = (engineUninit \/ ~Initialised("none"))
                      /\ UNCHANGED <<err, held, gateSeen, clone, iter, doc, options, outs>>
                 ELSE Commit(t, "CXmpFileOpen", "none", o, cb, R, held)
    /\ UNCHANGED <<gateVars, pc, cur, meta>>

\* One thread settles the gate, makes capsules and calls with outError = NULL.
NextNull ==
    \/ \E t \in Caller :
          \/ CXmpFileNew(t)
          \/ CXmpMetaNew(t)
          \/ call_once_execute(t)
          \/ Surface_NullRecord(t)
          \/ CXmpFileOpen_NullRecord(t)
          \/ CXmpStringDrop(t)
    \/ Return

SpecNull == Init /\ [][NextNull]_vars

----------------------------------------------------------------------------
(* What the properties below read from a completed call *)

\* The functions outside SimpleOps that take CXmpError* outError.
RecordTakers ==
    {"CXmpFileNew", "CXmpMetaNew", "CXmpMetaParseFromBuffer", "CXmpFileOpen",
     "CXmpMetaGetLocalizedText", "CXmpMetaClone", "CXmpIteratorNew", "CXmpIteratorNext",
     "CXmpIteratorSkip"}

TakesRecord(op) == op \in RecordTakers \/ (op \in SimpleNames /\ Shape(op).rec)

\* The value the function returns on its failure paths.
SentinelOf(op) ==
    CASE op \in SimpleNames -> Shape(op).sentinel
      [] op = "CXmpFileOpen" -> "void"
      [] OTHER -> "null"

\* The record of the caller of the completed call, and its message as the
\* caller reads it.
OutRecord == err[last.t]

MessageOf(e) == IF e.debugMessage = NULL THEN << >> ELSE CStr(heap[e.debugMessage])

Records == {err[t] : t \in Threads} \cup {file[f].err : f \in {g \in FileIds : file[g].st = "live"}}

----------------------------------------------------------------------------
(* Process Initialization Gate *)

\* C1: for any interleaving of first calls, init_xmp_fn executes exactly
\* once in the process (never twice, and once before any init_xmp returns),
\* and all calls of init_xmp return the same boolean.
C1_SetupRunsExactlyOnce ==
    /\ Len(initLog) <= 1
    /\ gateSeen # {} => Len(initLog) = 1
    /\ Cardinality(gateSeen) <= 1

\* C2: once an execution of the setup has not completed both Initialize
\* steps, the outcome is "failed" for good: the setup is not executed
\* again, xmp_init_succeeded stays false and init_xmp returns false only.
C2_FailureIsPermanent ==
    (initLog # << >> /\ initLog[1] # "succeeded") =>
        /\ Len(initLog) = 1
        /\ ~xmp_init_succeeded
        /\ gateSeen \subseteq {"failed"}

\* C3: no exported function calls an engine routine unless the gate has
\* run and reported success.
C3_NoEngineCallBeforeInit == ~engineUninit

\* C4, as stated: when the gate reports failure a gated function returns
\* its sentinel, makes no engine call, and leaves outError with hadError
\* set and a code other than the one of the unknown failure.
C4_ReservedUnavailableCode ==
    last.gate = "failed" =>
        /\ last.eng = 0
        /\ last.ret = SentinelOf(last.op)
        /\ TakesRecord(last.op) =>
              (OutRecord.hadError = 1 /\ OutRecord.id # kXMPErr_Unknown)

\* C4, amended: when the gate reports failure a gated function returns its
\* sentinel, makes no engine call, and leaves outError with hadError set,
\* id = kXMPErr_Unknown and the message "XMP Toolkit unavailable"; the
\* unknown failure has the same id and no message, so the message alone
\* tells the two apart.
C4_GateFailureSignalled ==
    /\ last.gate = "failed" =>
          /\ last.eng = 0
          /\ last.ret = SentinelOf(last.op)
          /\ last.kind = "nocall"
          /\ TakesRecord(last.op) =>
                /\ OutRecord.hadError = 1
                /\ OutRecord.id = kXMPErr_Unknown
                /\ OutRecord.debugMessage # NULL
                /\ MessageOf(OutRecord) = XmpUnavailable
    /\ (last.kind = "other" /\ last.pops = 1) =>
          /\ OutRecord.id = kXMPErr_Unknown
          /\ OutRecord.debugMessage = NULL

\* A gated function that takes a record has returned on the failed gate.
C4_Witness ==
    /\ last.gate = "failed"
    /\ TakesRecord(last.op)
    /\ last.ret = "null"
    /\ OutRecord.hadError = 1

----------------------------------------------------------------------------
(* Fault containment and the Error Record Channel *)

\* C5: whatever the engine, an allocation or a constructor raises during
\* the call of an exported function is caught inside the function; no
\* fault leaves an exported function.
C5_NoFaultEscapes == ~last.escaped

\* C6: when an engine call made by a function that takes a record faults,
\* exactly one populate step runs and the function returns its sentinel;
\* after XMP_Error(c, s) the record has hadError set, id = c and message s;
\* after any other fault it has hadError set, id = kXMPErr_Unknown and no
\* message.
C6_FaultPopulatesOnce ==
    (TakesRecord(last.op) /\ last.kind \in {"xmp", "other"}) =>
        /\ ~last.escaped
        /\ last.pops = 1
        /\ last.ret = SentinelOf(last.op)
        /\ OutRecord.hadError = 1
        /\ last.kind = "xmp" =>
              /\ OutRecord.id = last.code
              /\ OutRecord.debugMessage # NULL
              /\ MessageOf(OutRecord) = last.text
        /\ last.kind = "other" =>
              /\ OutRecord.id = kXMPErr_Unknown
              /\ OutRecord.debugMessage = NULL

----------------------------------------------------------------------------
(* CXmpFileOpen and the embedded record *)

\* C8: when the engine invoked the error callback during CXmpFileOpen, then
\* on return (the engine returned false, returned true, or raised after the
\* callback) outError has hadError set with the code and the message the
\* callback was given, and the embedded record of the file is clean.
C8_CallbackFaultSurfaced ==
    (last.op = "CXmpFileOpen" /\ last.cbk = "cb") =>
        /\ OutRecord.hadError = 1
        /\ OutRecord.id = last.ccode
        /\ OutRecord.debugMessage # NULL
        /\ MessageOf(OutRecord) = last.ctext
        /\ file[last.val].err = CXmpError

\* C9: no message buffer is freed twice, and every record's debugMessage is
\* NULL or a live allocation that no other record and no string handed to
\* the caller shares.
C9_MessagesOwnedOnce ==
    /\ "double_free" \notin ub
    /\ \A e \in Records : e.debugMessage # NULL => ~IsFree(heap, e.debugMessage)
    /\ \A t \in Threads : err[t].debugMessage # NULL =>
          /\ err[t].debugMessage \notin held
          /\ \A u \in Threads \ {t} : err[u].debugMessage # err[t].debugMessage
          /\ \A f \in FileIds :
                file[f].st = "live" => file[f].err.debugMessage # err[t].debugMessage

\* C10: when the engine's OpenFile failed (it returned false or raised,
\* with or without the error callback), outError has hadError set when
\* CXmpFileOpen returns.
C10_OpenFailureSurfaced ==
    (last.op = "CXmpFileOpen" /\ last.kind \in {"absent", "xmp", "other"}) =>
        OutRecord.hadError = 1

----------------------------------------------------------------------------
(* The three states of a record *)

IsClean(e) == e.hadError = 0 /\ e.id = 0 /\ e.debugMessage = NULL

IsKnownFailure(e) == e.hadError = 1 /\ e.id # kXMPErr_Unknown

IsUnknownFailure(e) == e.hadError = 1 /\ e.id = kXMPErr_Unknown

\* C11: every record (the callers' and the one embedded in each live file)
\* is in exactly one of the states clean, known failure, unknown failure;
\* hadError = 0 never goes with a message or with a non-zero id.
C11_RecordInOneOfThreeStates ==
    \A e \in Records :
        /\ Cardinality({k \in {"clean", "known", "unknown"} :
                           CASE k = "clean" -> IsClean(e)
                             [] k = "known" -> IsKnownFailure(e)
                             [] OTHER -> IsUnknownFailure(e)}) = 1
        /\ e.hadError = 0 => (e.debugMessage = NULL /\ e.id = 0)

\* CXmpFileOpen has returned with the caller's record in the unknown
\* failure state and the embedded record in the known failure state, on a
\* file whose embedded record had been reset from an earlier failure.
C11_Witness ==
    /\ last.op = "CXmpFileOpen"
    /\ IsUnknownFailure(OutRecord)
    /\ IsKnownFailure(file[last.val].err)
    /\ file[last.val].err.debugMessage # NULL

----------------------------------------------------------------------------
(* Typed property reads *)

TypedReadCalls == {Rep(S).name : S \in TypedReads} \cup {"CXmpMetaGetLocalizedText"}

\* C12: every typed read has an absent result (null or false) for the
\* engine's false return, and a typed read called with a clean record on a
\* property the engine reports as not present returns that result with
\* the record still clean.
C12_AbsentReadLeavesRecordClean ==
    /\ \A S \in TypedReads : S.absent /\ S.rec /\ S.sentinel \in {"null", "false"}
    /\ [][(last'.op \in TypedReadCalls /\ last'.kind = "absent" /\ IsClean(err[last'.t]))
             => /\ last'.ret \in {"null", "false"}
                /\ last'.ret = SentinelOf(last'.op)
                /\ ~last'.escaped
                /\ IsClean(err'[last'.t])]_vars

\* A typed read found the property absent and returned with a clean record.
C12_Witness ==
    /\ last.op \in TypedReadCalls
    /\ last.kind = "absent"
    /\ last.eng = 1
    /\ last.ret \in {"null", "false"}
    /\ IsClean(OutRecord)

----------------------------------------------------------------------------
(* Faults and absence *)

\* C13: for every read or query (a call that has an "absent / no / not
\* present" result) called with a clean record, what the
\* caller observes after an engine fault, the pair (return value, record),
\* differs from what it observes after a fault-free absent result of the
\* same call, which is the sentinel and the record as passed in.
C13_FaultDistinctFromAbsent ==
    [][(/\ last'.op \in {Rep(S).name : S \in {X \in SimpleOps : X.absent}}
                         \cup {"CXmpFileGetXmp", "CXmpMetaGetLocalizedText"}
        /\ last'.kind \in {"xmp", "other"}
        /\ ~last'.escaped
        /\ IsClean(err[last'.t]))
          => <<last'.ret, err'[last'.t]>> # <<SentinelOf(last'.op), err[last'.t]>>]_vars

----------------------------------------------------------------------------
(* Ownership of allocations *)

\* The owners of the buffer at address a: the caller holding it as a
\* returned string, and every record whose debugMessage is a.
Owners(a) ==
    (IF a \in held THEN {<<"caller", 0>>} ELSE {})
        \cup {<<"record", t>> : t \in {u \in Threads : err[u].debugMessage = a}}
        \cup {<<"file", f>> : f \in {g \in FileIds : file[g].st = "live" /\ file[g].err.debugMessage = a}}

\* A capsule that was allocated, not handed to the caller and not deleted.
LeakedCapsule ==
    \/ \E m \in MetaIds : meta[m] = "leaked"
    \/ \E k \in CloneIds : clone[k] = "leaked"
    \/ \E i \in IterIds : iter[i] = "leaked"

\* C14: at every return each allocation of the layer has exactly one
\* owner: a capsule allocated during a call is handed to the caller or
\* deleted before the call returns, and each live string buffer belongs to
\* the caller or to one record of the caller or of a live file (so that
\* nothing stays allocated once the caller has released and dropped
\* everything).
C14_EveryAllocationOwnedOnce ==
    /\ ~LeakedCapsule
    /\ \A a \in Addr : ~IsFree(heap, a) => Cardinality(Owners(a)) = 1

----------------------------------------------------------------------------
(* String Transfer Protocol *)

\* C15: the buffer returned for a text s (an engine string or the input of
\* CXmpStringCopy) is newly allocated, no other buffer changes, no record
\* points to it, and it holds exactly the bytes of s followed by one nul
\* byte, Len(s) + 1 bytes in all; a text without nul bytes reads back as s.
C15_ReturnedBufferIsExactCopy ==
    [][(last'.ret = "str" /\ last'.op \in {"CXmpMetaGetProperty", "CXmpStringCopy"}) =>
          LET a == last'.val
              s == last'.text
          IN  /\ IsFree(heap, a)
              /\ heap'[a] = s \o <<NUL>>
              /\ Len(heap'[a]) = Len(s) + 1
              /\ \A b \in Addr \ {a} : heap'[b] = heap[b]
              /\ \A e \in Records : e.debugMessage # a
              /\ (\A i \in 1..Len(s) : s[i] # NUL) => CStr(heap'[a]) = s]_vars

\* An engine string of MaxLen bytes with a nul byte inside was returned
\* while another returned buffer was live.
C15_Witness ==
    /\ last.op = "CXmpMetaGetProperty"
    /\ last.ret = "str"
    /\ Len(last.text) = MaxLen
    /\ \E i \in 1..Len(last.text) : last.text[i] = NUL
    /\ \E b \in held \ {last.val} : ~IsFree(heap, b)

----------------------------------------------------------------------------
(* Handle lifecycle *)

HandleMakers ==
    {"CXmpFileNew", "CXmpMetaNew", "CXmpMetaClone", "CXmpMetaParseFromBuffer",
     "CXmpFileGetXmp", "CXmpIteratorNew"}

HandleDrops == {"CXmpFileDrop", "CXmpMetaDrop", "CXmpIteratorDrop"}

CapsuleIds ==
    ({"file"} \X FileIds) \cup ({"meta"} \X MetaIds) \cup ({"clone"} \X CloneIds)
        \cup ({"iter"} \X IterIds)

\* The state of every capsule.
Capsules ==
    [x \in CapsuleIds |->
        CASE x[1] = "file" -> file[x[2]].st
          [] x[1] = "meta" -> meta[x[2]]
          [] x[1] = "clone" -> clone[x[2]]
          [] OTHER -> iter[x[2]]]

\* C16: a handle-creating call that returns (faults that leave the
\* function are C5's matter) either returns a handle, and exactly that one
\* capsule went from absent to live, or returns null and no capsule was
\* created, with the record populated if the gate failed or the engine
\* faulted; and a capsule changes state only from absent to live by such a
\* call and from live to dropped by its Drop.
C16_HandleMadeOrNothingCreated ==
    [][/\ (last'.op \in HandleMakers /\ last.op = "none" /\ ~last'.escaped) =>
             IF last'.ret = "handle"
             THEN \E x \in CapsuleIds :
                     /\ Capsules[x] = "absent"
                     /\ Capsules'[x] = "live"
                     /\ \A y \in CapsuleIds \ {x} : Capsules'[y] = Capsules[y]
             ELSE /\ last'.ret = "null"
                  /\ Capsules' = Capsules
                  /\ ((last'.kind \in {"xmp", "other"} \/ last'.gate = "failed")
                         /\ TakesRecord(last'.op)) => err'[last'.t].hadError = 1
       /\ \A x \in CapsuleIds :
             Capsules'[x] # Capsules[x] =>
                \/ /\ Capsules[x] = "absent"
                   /\ Capsules'[x] = "live"
                   /\ last'.op \in HandleMakers
                   /\ last'.ret = "handle"
                \/ /\ Capsules[x] = "live"
                   /\ Capsules'[x] = "dropped"
                   /\ last'.op \in HandleDrops]_vars

----------------------------------------------------------------------------
(* A failed CXmpFileOpen and the handle *)

\* C17: a CXmpFileOpen that fails leaves the capsule live, and no free() of
\* a CXmpFileOpen or CXmpFileDrop on the handle (the first, a later one, or
\* the Drop) meets a buffer that was already released.
C17_FailedOpenLeavesHandleUsable ==
    /\ (last.op = "CXmpFileOpen" /\ last.kind \in {"absent", "xmp", "other"}) =>
          file[last.val].st = "live"
    /\ last.op \in {"CXmpFileOpen", "CXmpFileDrop"} => "double_free" \notin ub

----------------------------------------------------------------------------
(* Round trip of a property value *)

\* A property that holds a value of the round trip's domain: written by a
\* CXmpMetaSetProperty that succeeded, from a non-empty byte string without
\* a nul byte.
RoundTripValue(x) ==
    x.has /\ x.given # << >> /\ \A i \in 1..Len(x.given) : x.given[i] # NUL

\* The string CXmpMetaGetProperty has just returned is owned by the caller
\* and holds the bytes of value and the terminator.
ReturnsOwned(value) ==
    /\ last'.ret = "str"
    /\ IsFree(heap, last'.val)
    /\ last'.val \in held'
    /\ heap'[last'.val] = value \o <<NUL>>

----------------------------------------------------------------------------
(* The inert build *)

\* C19: in the inert build a call of any exported function other than
\* CXmpStringCopy and CXmpStringDrop makes no engine call and does not run
\* the gate, returns null, false, 0 or nothing, leaves the caller's record
\* as it was passed in, and leaves 0 at outOptions when the function has an
\* outOptions parameter.
C19_InertCallDoesNothing ==
    [][\A t \in Threads :
          InertCall(t) =>
             /\ last'.eng = 0
             /\ ~engineUninit'
             /\ last'.gate = "none"
             /\ UNCHANGED <<gateVars, gateSeen>>
             /\ last'.ret \in {"null", "false", "0", "void"}
             /\ err' = err
             /\ heap' = heap
             /\ (last'.op \in HasOutOptions => options' = 0)]_vars

----------------------------------------------------------------------------
(* The error interception callback *)

\* C20: every invocation of xmpFileErrorCallback returns false; with a
\* non-null context it leaves the record with hadError set, id = cause and
\* a new buffer holding the message up to its terminator, and the buffer
\* the record held before is released; with a null context it writes
\* nothing.
C20_CallbackRecordsAndReturnsFalse ==
    [][\A t \in Threads : \A f \in FileIds : \A context \in {NULL, 1} :
       \A cause \in Codes : \A message \in PropValues :
          xmpFileErrorCallback_Invoke(t, f, context, cause, message) =>
             LET old == file[f].err.debugMessage
                 new == file'[f].err.debugMessage
             IN  /\ last'.ret = "false"
                 /\ "double_free" \notin ub'
                 /\ context = NULL => (file' = file /\ heap' = heap)
                 /\ context # NULL =>
                       /\ file'[f].err.hadError = 1
                       /\ file'[f].err.id = cause
                       /\ new # NULL
                       /\ IsFree(heap, new) \/ new = old
                       /\ heap'[new] = CStr(message) \o <<NUL>>
                       /\ (old # NULL /\ old # new) => IsFree(heap', old)
                       /\ \A a \in Addr \ {old, new} : heap'[a] = heap[a]]_vars

\* The callback has replaced a message the record held by a message of
\* another code, in another buffer.
C20_Witness ==
    /\ last.op = "xmpFileErrorCallback"
    /\ last.ret = "false"
    /\ last.val # NULL
    /\ \E f \in FileIds :
          /\ file[f].err.hadError = 1
          /\ file[f].err.id = last.ccode
          /\ file[f].err.debugMessage \notin {NULL, last.val}
          /\ heap[file[f].err.debugMessage] = CStr(last.ctext) \o <<NUL>>
          /\ IsFree(heap, last.val)

----------------------------------------------------------------------------
(* Replacement of the message of a record *)

\* C21: when a call of an exported function changes a caller's record that
\* holds a message (a live buffer), the buffer of that message is released
\* by the time the call returns: it is free, or it was freed and handed out
\* again by malloc as the buffer of the new message.
C21_PreviousMessageReleased ==
    [][\A t \in Threads :
          LET old == err[t].debugMessage IN
          (/\ last'.op \notin {"none", "ReleaseError"}
           /\ last'.t = t
           /\ old # NULL
           /\ ~IsFree(heap, old)
           /\ err'[t] # err[t]) =>
              \/ IsFree(heap', old)
              \/ (err'[t].debugMessage = old /\ last'.pops > 0)]_vars

----------------------------------------------------------------------------
(* Closing a file *)

----------------------------------------------------------------------------
(* Out-parameters of the reads *)

\* C23: when a typed read with an outOptions parameter (the nine of
\* TypedReads and CXmpMetaGetLocalizedText) returns without a value, after
\* the engine's false return or after a fault, and the engine has stored
\* nothing at outOptions, the uint32 at outOptions is 0.
C23_OutOptionsZeroWithoutValue ==
    [][\A t \in Threads :
          ((ReadWithOutOptions(t, FALSE) \/ CXmpMetaGetLocalizedText_Out(t, FALSE))
              /\ last'.kind \in {"absent", "xmp", "other"}) =>
             (last'.ret \in {"null", "false"} /\ options' = 0)]_vars

\* C24: CXmpIteratorNext returns true exactly on the engine's true return
\* and then has stored three distinct new buffers, owned by the caller, in
\* *outSchemaNS, *outPropPath and *outPropValue; CXmpMetaGetLocalizedText
\* returns a string exactly on the engine's true return and then has stored
\* in *actualLang a new buffer other than the one it returns; on every other
\* return no cell is written and no buffer is left allocated.
C24_OutputsAllOrNone ==
    [][LET FreshOwned(A, n) ==
               /\ Cardinality(A) = n
               /\ \A a \in A : IsFree(heap, a) /\ ~IsFree(heap', a) /\ a \in held'
           NothingTransferred(t) ==
               /\ outs' = outs
               /\ held' = held
               /\ \A a \in Addr \cup OutAddr :
                     (IsFree(heap, a) /\ ~IsFree(heap', a)) =>
                        (last'.kind \in {"xmp", "other"} /\ err'[t].debugMessage = a)
       IN
       \A t \in Threads : \A wrote \in BOOLEAN :
          /\ (last'.op = "CXmpIteratorNext" /\ last'.t = t /\ CXmpIteratorNext(t, wrote)) =>
                /\ last'.ret = "true" <=> last'.kind = "ok"
                /\ last'.ret \in {"true", "false"}
                /\ IF last'.ret = "true"
                   THEN /\ FreshOwned({outs'["outSchemaNS"], outs'["outPropPath"],
                                       outs'["outPropValue"]}, 3)
                        /\ outs'["actualLang"] = outs["actualLang"]
                   ELSE NothingTransferred(t)
          /\ (last'.op = "CXmpMetaGetLocalizedText" /\ last'.t = t
                 /\ CXmpMetaGetLocalizedText_Out(t, wrote)) =>
                /\ last'.ret = "str" <=> last'.kind = "ok"
                /\ last'.ret \in {"str", "null"}
                /\ IF last'.ret = "str"
                   THEN /\ FreshOwned({outs'["actualLang"], last'.val}, 2)
                        /\ \A c \in OutCells \ {"actualLang"} : outs'[c] = outs[c]
                   ELSE NothingTransferred(t)]_vars

\* CXmpIteratorNext has returned true with its three cells at three live
\* buffers of the caller, after a CXmpMetaGetLocalizedText whose *actualLang
\* the caller has released.
C24_Witness ==
    /\ last.op = "CXmpIteratorNext"
    /\ last.ret = "true"
    /\ Cardinality({outs["outSchemaNS"], outs["outPropPath"], outs["outPropValue"]}) = 3
    /\ \A c \in OutCells \ {"actualLang"} : outs[c] \in held /\ ~IsFree(heap, outs[c])
    /\ outs["actualLang"] # NULL

----------------------------------------------------------------------------
(* Null record *)

\* C25: every call made with outError = NULL, the false return of
\* CXmpFileOpen among them, completes without an access through the null
\* pointer, writes no record, and returns the value the function returns on
\* that path with a record.
C25_NullRecordAccepted ==
    [][\A t \in Threads :
          (/\ last'.op \in {S.name : S \in {X \in Exercised : X.rec}} \cup {"CXmpFileOpen"}
           /\ last'.t = t
           /\ (Surface_NullRecord(t) \/ CXmpFileOpen_NullRecord(t))) =>
             /\ "null_deref" \notin ub'
             /\ err' = err
             /\ last'.ret = (CASE last'.op = "CXmpFileOpen" -> "void"
                               [] last'.op # "CXmpFileOpen" /\ last'.kind = "ok" ->
                                     Shape(last'.op).ok
                               [] OTHER -> Shape(last'.op).sentinel)]_vars

====
